---- MODULE Spec2Model ----
(***************************************************************************)
(* Verification model of the telemetry dashboards.                         *)
(*                                                                         *)
(* Four React components are modelled, each as its own state machine over  *)
(* its own block of variables:                                             *)
(*   - the wide-shape Dashboard (src/unnamed/part_001:7 with a location    *)
(*     filter and src/src/Dashboard.js:7 without one), whose variables     *)
(*     keep the names of its state;                                        *)
(*   - the long-shape TimeSeriesDashboard (src/src/Dashboard.js:2099),     *)
(*     variables ts*;                                                      *)
(*   - the FileUploader dashboard (src/unnamed/part_001:1205), variables   *)
(*     csvData, isLoading, stats and up*;                                  *)
(*   - the pure filter and metrics functions, applied to inputs drawn in   *)
(*     Init, variables fn*.                                                *)
(*     Those of src/src/TimeSeriesDashboard.js are named as such.          *)
(*                                                                         *)
(* Units.  One model tick is 360 000 ms = 0.1 hour, for timestamps         *)
(* (milliseconds since the epoch in the code) and for cycle durations      *)
(* (cycle_duration_ms, cycle.durationS).  All model timestamps and         *)
(* durations are whole ticks, so runtime_hours * 10 is the duration in     *)
(* ticks and toFixed(1) of an hour value is exact.                         *)
(* calculateCycleMetrics alone is checked with cycle.durationS in whole    *)
(* seconds, its drift in hundredths of a percent.                          *)
(***************************************************************************)
EXTENDS Integers, Sequences, FiniteSets, TLC

VARIABLES
  \* the wide-shape Dashboard component
  wVariant,           \* "location": part_001's Dashboard; "plain": Dashboard.js's
  originalData,       \* useState([]): the installed dataset
  data,               \* useState([]): the filtered working set
  loading,            \* useState(true)
  errorMessage,       \* useState(''): << >> is '', else <<text, detail...>>
  selectedDevice,     \* useState('all')
  selectedLocation,   \* useState('all')
  selectedTimeRange,  \* useState('7d')
  wPending,           \* the load or upload awaiting its read: << >> or <<request>>
  wParsedRows,        \* history: parsed.data.length of the last processCSVData
  \* the long-shape TimeSeriesDashboard component (Dashboard.js)
  tsRawData,          \* rawData, useState([])
  tsProcessedData,    \* processedData, useState({}): the devices in key order
  tsLoading,          \* loading, useState(false)
  tsProgress,         \* progress, useState(0)
  tsSelectedDevice,   \* selectedDevice, useState('all')
  tsErrorMessage,     \* errorMessage, useState('')
  tsDateRange,        \* dateRange, useState({ start: '', end: '' })
  tsTimeRange,        \* timeRange, useState('all')
  tsPending,          \* the file whose text() is awaited: << >> or <<file>>
  tsParse,            \* the DataProcessor.parseCSV call in progress: << >> or
                      \* <<[rest, allRows, processedCount, file]>>
  tsInstalledFile,    \* history: the file whose onComplete ran last, if any
  \* the FileUploader dashboard (part_001)
  csvData,            \* useState(null): << >> is null, else <<rows>>
  upProcessedData,    \* processedData, useState({}): the days in key order
  isLoading,          \* useState(false)
  stats,              \* useState({...}): the fields totalCycles and deviceId
  upReaders,          \* the FileReaders of FileUploader that are reading
  upStarted,          \* history: how many reads were started
  upInstalledBy,      \* history: which read's onload set csvData last
  \* the pure functions under check
  fnPc,               \* "input", then "once", "twice" or "done"
  fnIn,               \* the arguments drawn in Init
  fnOut               \* what the applications returned

wideVars == <<wVariant, originalData, data, loading, errorMessage, selectedDevice,
              selectedLocation, selectedTimeRange, wPending, wParsedRows>>

tsVars == <<tsRawData, tsProcessedData, tsLoading, tsProgress, tsSelectedDevice,
            tsErrorMessage, tsDateRange, tsTimeRange, tsPending, tsParse,
            tsInstalledFile>>

upVars == <<csvData, upProcessedData, isLoading, stats, upReaders, upStarted,
            upInstalledBy>>

fnVars == <<fnPc, fnIn, fnOut>>

vars == <<wideVars, tsVars, upVars, fnVars>>

\* What the actions of one component leave alone.
notWide == <<tsVars, upVars, fnVars>>
notTs == <<wideVars, upVars, fnVars>>
notUp == <<wideVars, tsVars, fnVars>>
notFn == <<wideVars, tsVars, upVars>>

\* No result yet.
NoOutput == << >>

\* The pure-function variables when no function is under check.
FnIdle == fnPc = "off" /\ fnIn = << >> /\ fnOut = NoOutput

\* ------------------------------------------------------------------ bounds

\* Longest dataset (number of records or points) the pure-function
\* specifications draw.
MaxRecs == 2

\* ------------------------------------------------------- program constants

\* (1000 * 60 * 60) ms, one hour, in ticks.
TicksPerHour == 10

\* The IEEE NaN that Date.prototype.getTime() gives for an invalid date.  Every
\* comparison with it is false and Math.max / Math.min propagate it.
NaN == -1000000

Devices == {"M1", "M2"}
Locations == {"L1", "L2"}

\* ------------------------------------------------------------ JS helpers

IsNaN(x) == x = NaN

\* a >= b on JS numbers.
JsGe(a, b) == ~IsNaN(a) /\ ~IsNaN(b) /\ a >= b

\* a <= b on JS numbers.
JsLe(a, b) == ~IsNaN(a) /\ ~IsNaN(b) /\ a <= b

RECURSIVE SeqMax(_)
SeqMax(s) ==
  IF Len(s) = 1 THEN s[1]
  ELSE LET m == SeqMax(Tail(s)) IN IF s[1] >= m THEN s[1] ELSE m

RECURSIVE SeqMin(_)
SeqMin(s) ==
  IF Len(s) = 1 THEN s[1]
  ELSE LET m == SeqMin(Tail(s)) IN IF s[1] <= m THEN s[1] ELSE m

\* Math.max(...xs) for a non-empty list: NaN if any argument is NaN.
MathMax(xs) ==
  IF \E i \in 1..Len(xs) : IsNaN(xs[i]) THEN NaN ELSE SeqMax(xs)

\* Math.min(...xs) for a non-empty list.
MathMin(xs) ==
  IF \E i \in 1..Len(xs) : IsNaN(xs[i]) THEN NaN ELSE SeqMin(xs)

RECURSIVE SumFirst(_, _)
SumFirst(s, n) == IF n = 0 THEN 0 ELSE SumFirst(s, n - 1) + s[n]

\* The sum of a list of numbers.
SeqSum(s) == SumFirst(s, Len(s))

\* All sequences over S of length at most n.
SeqsUpTo(S, n) == UNION {[1..k -> S] : k \in 0..n}

\* s is an order-preserving sub-list of t.
RECURSIVE IsSubSeq(_, _)
IsSubSeq(s, t) ==
  IF s = << >> THEN TRUE
  ELSE IF t = << >> THEN FALSE
  ELSE IF s[1] = t[1] THEN IsSubSeq(Tail(s), Tail(t))
  ELSE IsSubSeq(s, Tail(t))

\* ---------------------------------------------- wide shape: filter engine

WideTimeRanges == {"24h", "7d", "30d", "all"}

\* The timestamps of a list of wide records: d => new Date(d.cycle_started_at).
StartedAt(records) == [i \in 1..Len(records) |-> records[i].cycle_started_at]

\* now: the latest cycle_started_at of originalData.  The second parameter is
\* the list as filtered so far, which the code does not read here.
FilterNow(original, filtered) == MathMax(StartedAt(original))

\* startDate of the switch on selectedTimeRange.
StartDate(now, timeRange) ==
  CASE timeRange = "24h" ->
         IF IsNaN(now) THEN NaN ELSE now - 24 * TicksPerHour
    [] timeRange = "7d" ->
         IF IsNaN(now) THEN NaN ELSE now - 7 * 24 * TicksPerHour
    [] timeRange = "30d" ->
         IF IsNaN(now) THEN NaN ELSE now - 30 * 24 * TicksPerHour
    [] OTHER -> 0

\* The plausible bug of an exclusive upper bound at now.
InWindowBeforeNow(d, now, startDate) ==
  JsGe(d.cycle_started_at, startDate) /\ d.cycle_started_at < now

\* The last filter of applyFilters: new Date(d.cycle_started_at) >= startDate.
InWindow(d, now, startDate) == JsGe(d.cycle_started_at, startDate)

\* The plausible bug of a location selection that is never applied.
FilterByDeviceOnly(original, device, location) ==
  IF device # "all"
  THEN SelectSeq(original, LAMBDA d : d.device_id = device)
  ELSE original

\* The device and location stages of applyFilters.
FilterBySelection(original, device, location) ==
  LET byDevice ==
        IF device # "all"
        THEN SelectSeq(original, LAMBDA d : d.device_id = device)
        ELSE original
  IN IF location # "all"
     THEN SelectSeq(byDevice, LAMBDA d : d.location = location)
     ELSE byDevice

\* The local startDate of one applyFilters run on a non-empty originalData.
StartDateUsed(original, device, location, timeRange) ==
  LET filtered == FilterBySelection(original, device, location)
  IN StartDate(FilterNow(original, filtered), timeRange)

\* The plausible bug of a time range that is never applied.
FilterRecordsNoWindow(original, device, location, timeRange) ==
  FilterBySelection(original, device, location)

\* The list applyFilters hands to setData when originalData is not empty.
FilterRecords(original, device, location, timeRange) ==
  LET filtered == FilterBySelection(original, device, location)
      now == FilterNow(original, filtered)
      startDate == StartDateUsed(original, device, location,
                                 timeRange)
  IN SelectSeq(filtered, LAMBDA d : InWindow(d, now, startDate))

\* The plausible bug of filtering the original list in place.
ApplyFiltersInPlace(original, records, device, location, timeRange) ==
  IF Len(original) = 0
  THEN [originalData |-> original, data |-> records]
  ELSE LET f == FilterRecords(original, device, location,
                              timeRange)
       IN [originalData |-> f, data |-> f]

\* applyFilters: the component's (originalData, data) after it ran.  With an
\* empty originalData it returns before setData and data keeps its value.
ApplyFilters(original, records, device, location, timeRange) ==
  IF Len(original) = 0
  THEN [originalData |-> original, data |-> records]
  ELSE [originalData |-> original,
        data |-> FilterRecords(original, device, location,
                               timeRange)]

\* ---------------------------------------------- long shape: filter engine

LongTimeRanges == {"1h", "3h", "6h", "12h", "all"}

\* A datetime-local input's value: << >> is the empty string, <<t>> a date.
IsSet(dateStr) == dateStr # << >>

Timestamps(points) == [i \in 1..Len(points) |-> points[i].timestamp]

\* The date-range stage of DataProcessor.applyFilters.
DateRangeFilter(records, dateRange) ==
  IF IsSet(dateRange.start) /\ IsSet(dateRange.end)
  THEN SelectSeq(records, LAMBDA d : JsGe(d.timestamp, dateRange.start[1])
                                  /\ JsLe(d.timestamp, dateRange.end[1]))
  ELSE records

\* cutoff of the switch on timeRange.
Cutoff(now, timeRange) ==
  CASE timeRange = "1h" -> IF IsNaN(now) THEN NaN ELSE now - 1 * TicksPerHour
    [] timeRange = "3h" -> IF IsNaN(now) THEN NaN ELSE now - 3 * TicksPerHour
    [] timeRange = "6h" -> IF IsNaN(now) THEN NaN ELSE now - 6 * TicksPerHour
    [] timeRange = "12h" -> IF IsNaN(now) THEN NaN ELSE now - 12 * TicksPerHour
    [] OTHER -> 0

\* d.timestamp >= cutoff.
AfterCutoff(d, now, cutoff) == JsGe(d.timestamp, cutoff)

\* now of the relative window: the latest timestamp of the list as already
\* filtered by the date range.
LongNow(filtered) == MathMax(Timestamps(filtered))

\* DataProcessor.applyFilters(data, dateRange, timeRange).
LongApplyFilters(records, dateRange, timeRange) ==
  LET filtered == DateRangeFilter(records, dateRange)
  IN IF timeRange # "all" /\ Len(filtered) > 0
     THEN LET now == LongNow(filtered)
              cutoff == Cutoff(now, timeRange)
          IN SelectSeq(filtered, LAMBDA d : AfterCutoff(d, now, cutoff))
     ELSE filtered

\* The local cutoff of one DataProcessor.applyFilters run: <<cutoff>>, or
\* << >> when none is computed (timeRange 'all', or nothing left after the
\* date range).
LongCutoffUsed(records, dateRange, timeRange) ==
  LET filtered == DateRangeFilter(records, dateRange)
  IN IF timeRange # "all" /\ Len(filtered) > 0
     THEN <<Cutoff(LongNow(filtered), timeRange)>>
     ELSE << >>

\* ------------------------------------------- wide shape: shape normalizer

\* new Date(t).getHours(), the runtime's time zone taken as UTC.
GetHours(t) == IF IsNaN(t) THEN NaN ELSE (t \div TicksPerHour) % 24

\* new Date(t).getDay(): 1970-01-01 was a Thursday (4).
GetDay(t) == IF IsNaN(t) THEN NaN ELSE ((t \div (24 * TicksPerHour)) + 4) % 7

\* The record processCSVData builds from a parsed row.  runtime_hours =
\* cycle_duration_ms / 1000 / 3600 is kept in tenths of an hour, which is the
\* duration in ticks.
ProcessRow(row) ==
  [device_id |-> row.device_id,
   location |-> row.location,
   cycle_started_at |-> row.cycle_started_at,
   cycle_duration_ms |-> row.cycle_duration_ms,
   date |-> row.cycle_started_at,
   hour |-> GetHours(row.cycle_started_at),
   dayOfWeek |-> GetDay(row.cycle_started_at),
   runtime_hours |-> row.cycle_duration_ms]

\* The plausible bug of a missing validity filter.
NormalizeRowsUnfiltered(rows) == [i \in 1..Len(rows) |-> ProcessRow(rows[i])]

\* parsed.data.map(...).filter(row => !isNaN(row.date.getTime())).
NormalizeRows(rows) ==
  SelectSeq([i \in 1..Len(rows) |-> ProcessRow(rows[i])],
            LAMBDA r : ~IsNaN(r.date))

\* --------------------------------------------- wide shape: metrics engine

\* A non-negative rational num / den (den > 0) rounded to one decimal, as
\* tenths: Number.prototype.toFixed(1).
ToFixed1(num, den) == (2 * 10 * num + den) \div (2 * den)

\* The plausible bug of a missing clamp.
NoClamp(num, den) == [num |-> num, den |-> den]

\* Math.min(utilizationRate, 100) on the rational num / den.
ClampTo100(num, den) ==
  IF num > 100 * den THEN [num |-> 100, den |-> 1] ELSE [num |-> num, den |-> den]

\* _.sumBy(data, 'runtime_hours'), in tenths of an hour.
TotalRuntime(records) == SeqSum([i \in 1..Len(records) |-> records[i].runtime_hours])

\* _.uniqBy(data, 'device_id').length.
UniqueDeviceCount(records) == Cardinality({records[i].device_id : i \in 1..Len(records)})

\* Math.max(actualHours, 1), in tenths of an hour.
HoursInWindow(records) ==
  LET latestDate == MathMax(StartedAt(records))
      earliestDate == MathMin(StartedAt(records))
      actualHours == latestDate - earliestDate
  IN IF actualHours >= 1 * TicksPerHour THEN actualHours ELSE 1 * TicksPerHour

\* kpis.utilizationRate / fleetMetrics.utilizationRate of a non-empty data,
\* in tenths of a percent.
WideUtilizationRate(records) ==
  LET num == TotalRuntime(records) * 100
      den == UniqueDeviceCount(records) * HoursInWindow(records)
      clamped == ClampTo100(num, den)
  IN ToFixed1(clamped.num, clamped.den)

\* What a useMemo returns for an empty data: {} (or, for a list, []).
EmptyObject == << >>

\* kpis (fleetMetrics): the fields derived from runtime, count and devices.
\* totalRuntime is in tenths of an hour, as toFixed(1) prints it.
Kpis(records) ==
  IF Len(records) = 0 THEN EmptyObject
  ELSE [totalRuntime |-> TotalRuntime(records),
        totalCycles |-> Len(records),
        deviceCount |-> UniqueDeviceCount(records),
        utilizationRate |-> WideUtilizationRate(records)]

\* The 168 (day-of-week, hour) cells.
Cells == (0..6) \X (0..23)

\* Where a record's runtime goes: heatmap[record.dayOfWeek][record.hour].
WideCellOf(record) == <<record.dayOfWeek, record.hour>>

\* heatmapData's raw cell values after data.forEach, in tenths of an hour.
RECURSIVE WideHeatmap(_)
WideHeatmap(records) ==
  IF records = << >> THEN [c \in Cells |-> 0]
  ELSE LET rest == WideHeatmap(SubSeq(records, 1, Len(records) - 1))
           record == records[Len(records)]
           key == WideCellOf(record)
       IN [rest EXCEPT ![key] = @ + record.runtime_hours]

\* heatmapData: the raw cell values, [] for an empty data.
HeatmapData(records) == IF Len(records) = 0 THEN EmptyObject ELSE WideHeatmap(records)

\* The sum of the raw values of the 168 cells of a heatmap.
CellSum(heatmap) ==
  SeqSum([day \in 1..7 |->
            SeqSum([hour \in 1..24 |-> heatmap[<<day - 1, hour - 1>>]])])

\* --------------------------------------------- long shape: metrics engine

\* utilizationRate.toFixed(1) of calculateFleetKPIs for a non-empty list of
\* cycle summaries, in tenths of a percent.  totalRuntime and timeWindowHours
\* are in tenths of an hour.
LongUtilizationRate(cycles) ==
  LET totalRuntime == SeqSum([i \in 1..Len(cycles) |-> cycles[i]["cycle.durationS"]])
      timestamps == Timestamps(cycles)
      maxT == MathMax(timestamps)
      minT == MathMin(timestamps)
      timeWindowHours == IF IsNaN(maxT) THEN NaN ELSE maxT - minT
  IN IF ~IsNaN(timeWindowHours) /\ timeWindowHours > 0
     THEN ToFixed1(totalRuntime * 100, timeWindowHours)
     ELSE 0

\* The heatmap object of calculateUtilizationHeatmap is keyed by
\* `${dayIndex}-${hour}`; a record whose time is invalid gets the key
\* 'NaN-NaN', which is none of the 168 keys set up front.
LongKeys == Cells \cup {<<NaN, NaN>>}

LongKeyOf(record) == <<GetDay(record.timestamp), GetHours(record.timestamp)>>

\* heatmap after realTimeData.forEach: samples with DI1_KM === 1 per key.
RECURSIVE LongHeatmap(_)
LongHeatmap(realTimeData) ==
  IF realTimeData = << >> THEN [c \in LongKeys |-> 0]
  ELSE LET rest == LongHeatmap(SubSeq(realTimeData, 1, Len(realTimeData) - 1))
           record == realTimeData[Len(realTimeData)]
           key == LongKeyOf(record)
       IN IF record.DI1_KM = 1 THEN [rest EXCEPT ![key] = @ + 1] ELSE rest

\* calculateUtilizationHeatmap: the value fields of heatmapArray, the 168
\* cells read back from heatmap.
CalculateUtilizationHeatmap(realTimeData) ==
  IF Len(realTimeData) = 0 THEN EmptyObject
  ELSE LET heatmap == LongHeatmap(realTimeData) IN [c \in Cells |-> heatmap[c]]

\* MetricsCalculator.calculateFleetKPIs: the fields derived from the cycle
\* count, runtime and time window.
CalculateFleetKPIs(cycles) ==
  IF Len(cycles) = 0 THEN EmptyObject
  ELSE [totalCycles |-> Len(cycles),
        totalRuntime |-> SeqSum([i \in 1..Len(cycles) |-> cycles[i]["cycle.durationS"]]),
        utilizationRate |-> LongUtilizationRate(cycles)]

\* alertThresholds.lifetimeCycleThreshold of the long-shape Dashboard.
lifetimeCycleThreshold == 50000

\* The mean time to repair every result of calculateLifetimeMetrics carries:
\* 2.5 hours, in tenths.
mttr == 25

\* One day (1000 * 60 * 60 * 24 ms) in ticks.
TicksPerDay == 24 * TicksPerHour

\* A non-negative rational num / den (den > 0) rounded to a whole number:
\* Number.prototype.toFixed(0).
ToFixed0(num, den) == (2 * num + den) \div (2 * den)

\* MetricsCalculator.calculateLifetimeMetrics of the long-shape Dashboard,
\* applied to all cycle summaries of the current device and the alert
\* thresholds in force.  rul and mtbf are in tenths (toFixed(1)), rulDays in
\* whole days (toFixed(0)).  A threshold that is not a number makes
\* Math.max(0, threshold - lifetimeCycles) NaN, and every quotient of it NaN.
CalculateLifetimeMetrics(allCycles, thresholds) ==
  IF Len(allCycles) = 0
  THEN [lifetimeCycles |-> 0, rul |-> 0, rulDays |-> 0, mtbf |-> 0,
        mttr |-> mttr, remainingCycles |-> 0]
  ELSE
    LET lifetimeCycles == Len(allCycles)
        threshold == thresholds.lifetimeCycleThreshold
        remainingCycles ==
          IF IsNaN(threshold) THEN NaN
          ELSE IF threshold - lifetimeCycles > 0 THEN threshold - lifetimeCycles
          ELSE 0
        timestamps == Timestamps(allCycles)
        maxT == MathMax(timestamps)
        minT == MathMin(timestamps)
        spanTicks == IF IsNaN(maxT) THEN NaN ELSE maxT - minT
        spanPositive == ~IsNaN(spanTicks) /\ spanTicks > 0
        rulPercent ==
          IF IsNaN(remainingCycles) \/ threshold = 0 THEN NaN
          ELSE IF threshold < 0 THEN 0
          ELSE ToFixed1(remainingCycles * 100, threshold)
        rulDays ==
          IF IsNaN(remainingCycles) THEN NaN
          ELSE IF spanPositive
          THEN ToFixed0(remainingCycles * spanTicks, TicksPerDay * lifetimeCycles)
          ELSE ToFixed0(remainingCycles, lifetimeCycles)
        failures ==
          Cardinality({i \in 1..Len(allCycles) :
                         /\ "cycle.overall" \in DOMAIN allCycles[i]
                         /\ allCycles[i]["cycle.overall"] = 1})
        totalRuntime ==
          SeqSum([i \in 1..Len(allCycles) |-> allCycles[i]["cycle.durationS"]])
        mtbf == IF failures > 0 THEN ToFixed0(totalRuntime, failures)
                ELSE totalRuntime
    IN [lifetimeCycles |-> lifetimeCycles,
        rul |-> rulPercent,
        rulDays |-> rulDays,
        remainingCycles |-> remainingCycles,
        mtbf |-> mtbf,
        mttr |-> mttr]

\* c[name] || 0 for a numeric measure: 0 when the point has none.
MeasureOrZero(c, name) == IF name \in DOMAIN c THEN c[name] ELSE 0

\* String(n) of a non-negative whole number, as its decimal digits.
RECURSIVE Digits(_)
Digits(n) == IF n < 10 THEN <<n>> ELSE Append(Digits(n \div 10), n % 10)

\* s < t for two strings of digits compared by code unit.
RECURSIVE StringLess(_, _)
StringLess(s, t) ==
  IF t = << >> THEN FALSE
  ELSE IF s = << >> THEN TRUE
  ELSE IF s[1] # t[1] THEN s[1] < t[1]
  ELSE StringLess(Tail(s), Tail(t))

\* Array.prototype.sort() with no comparator: the elements are ordered by
\* their string values; the sort is stable.
RECURSIVE InsertAsString(_, _)
InsertAsString(sorted, x) ==
  IF sorted = << >> THEN <<x>>
  ELSE LET last == sorted[Len(sorted)]
       IN IF StringLess(Digits(x), Digits(last))
          THEN Append(InsertAsString(SubSeq(sorted, 1, Len(sorted) - 1), x), last)
          ELSE Append(sorted, x)

RECURSIVE DefaultSort(_)
DefaultSort(xs) ==
  IF xs = << >> THEN << >>
  ELSE InsertAsString(DefaultSort(SubSeq(xs, 1, Len(xs) - 1)), xs[Len(xs)])

\* durations.slice().sort()[Math.floor(durations.length / 2)].
Baseline(durations) == DefaultSort(durations)[(Len(durations) \div 2) + 1]

Abs(x) == IF x < 0 THEN -x ELSE x

\* A rational num / den (den > 0) rounded to two decimals, as hundredths:
\* Number.prototype.toFixed(2).
ToFixed2(num, den) ==
  LET a == (2 * 100 * Abs(num) + den) \div (2 * den)
  IN IF num < 0 THEN -a ELSE a

\* baseline > 0 ? ((duration - baseline) / baseline) * 100 : 0, as a fraction.
Drift(duration, baseline) ==
  IF baseline > 0 THEN [num |-> (duration - baseline) * 100, den |-> baseline]
  ELSE [num |-> 0, den |-> 1]

\* The plausible bug of a missing Math.abs.
ExceedsTenSigned(drift) == drift.num > 10 * drift.den

\* Math.abs(drift) > 10.
ExceedsTen(drift) == Abs(drift.num) > 10 * drift.den

\* _.range(0, Math.ceil(_.max(durations) || 30), 2): the lower ends of the
\* distribution's buckets.
Buckets(durations) ==
  LET top == IF SeqMax(durations) = 0 THEN 30 ELSE SeqMax(durations)
  IN [k \in 1..((top + 1) \div 2) |-> 2 * (k - 1)]

\* MetricsCalculator.calculateCycleMetrics of the long-shape Dashboard, with
\* durations in whole seconds; drift is in hundredths of a percent.
CalculateCycleMetrics(cycles) ==
  IF Len(cycles) = 0
  THEN [trends |-> << >>, distribution |-> << >>, driftAnalysis |-> << >>,
        baseline |-> 0]
  ELSE
    LET durations ==
          [i \in 1..Len(cycles) |-> MeasureOrZero(cycles[i], "cycle.durationS")]
        baseline == Baseline(durations)
        trends ==
          [idx \in 1..Len(cycles) |->
             LET duration == MeasureOrZero(cycles[idx], "cycle.durationS")
                 drift == Drift(duration, baseline)
             IN [cycle |-> idx,
                 duration |-> duration,
                 energy |-> MeasureOrZero(cycles[idx], "energy.workWh"),
                 powerFactor |-> MeasureOrZero(cycles[idx], "workCurrent.loadFactor"),
                 drift |-> ToFixed2(drift.num, drift.den),
                 baseline |-> baseline,
                 isDrifting |-> ExceedsTen(drift)]]
        buckets == Buckets(durations)
        distribution ==
          [k \in 1..Len(buckets) |->
             [bucket |-> buckets[k],
              count |-> Cardinality({i \in 1..Len(durations) :
                                       /\ durations[i] >= buckets[k]
                                       /\ durations[i] < buckets[k] + 2})]]
    IN [trends |-> trends,
        distribution |-> distribution,
        driftAnalysis |->
          SubSeq(trends, IF Len(trends) > 30 THEN Len(trends) - 29 ELSE 1, Len(trends)),
        baseline |-> baseline]

\* useState's initial alertThresholds of the long-shape Dashboard.
alertThresholds ==
  [cycleDuration |-> 25, inrushMultiple |-> 8, voltageSag |-> 60,
   currentUnbalance |-> 15, ripple |-> 70,
   lifetimeCycleThreshold |-> lifetimeCycleThreshold, mtbfThresholdHours |-> 100]

\* The plausible bug of a loose test, cycle.overall taken as a flag.
CycleErrorTruthy(c) == MeasureOrZero(c, "cycle.overall") # 0

\* c['cycle.overall'] === 1.
CycleError(c) == "cycle.overall" \in DOMAIN c /\ c["cycle.overall"] = 1

\* How many of a list of booleans are true: [...].filter(Boolean).length.
CountTrue(flags) == Cardinality({i \in 1..Len(flags) : flags[i]})

\* The entry calculateAnomalies builds for the cycle at index idx (from 1);
\* time, a display string, is left out.
AnomalyEntry(c, idx, thresholds) ==
  LET inrushHigh == MeasureOrZero(c, "inrush.multiple") > thresholds.inrushMultiple
      voltageIssue == MeasureOrZero(c, "voltageSag.sagDepthPct") > thresholds.voltageSag
      currentIssue ==
        MeasureOrZero(c, "workCurrent.unbalancePct") > thresholds.currentUnbalance
      rippleHigh == MeasureOrZero(c, "workCurrent.rippleMaxPct") > thresholds.ripple
      cycleError == CycleError(c)
      anomalyScore ==
        CountTrue(<<inrushHigh, voltageIssue, currentIssue, rippleHigh, cycleError>>)
  IN [cycle |-> idx,
      score |-> anomalyScore,
      isAnomaly |-> anomalyScore >= 2,
      inrushHigh |-> inrushHigh,
      voltageIssue |-> voltageIssue,
      currentIssue |-> currentIssue,
      rippleHigh |-> rippleHigh,
      cycleError |-> cycleError]

\* The last n elements of a list: slice(-n).
LastN(s, n) == SubSeq(s, IF Len(s) > n THEN Len(s) - n + 1 ELSE 1, Len(s))

\* MetricsCalculator.calculateAnomalies of the long-shape Dashboard.
CalculateAnomalies(cycles, thresholds) ==
  IF Len(cycles) = 0
  THEN [anomalies |-> << >>, count |-> 0, recentAnomalies |-> << >>,
        severity |-> EmptyObject]
  ELSE
    LET anomalies ==
          [idx \in 1..Len(cycles) |-> AnomalyEntry(cycles[idx], idx, thresholds)]
        flagged == SelectSeq(anomalies, LAMBDA a : a.isAnomaly)
    IN [anomalies |-> anomalies,
        count |-> Len(flagged),
        recentAnomalies |-> LastN(flagged, 10),
        severity |->
          [critical |-> Len(SelectSeq(anomalies, LAMBDA a : a.score >= 4)),
           high |-> Len(SelectSeq(anomalies, LAMBDA a : a.score = 3)),
           medium |-> Len(SelectSeq(anomalies, LAMBDA a : a.score = 2))]]

\* obj[name] as a number: NaN for a field the object lacks (undefined in a
\* comparison, parseFloat(undefined)).
NumberAt(obj, name) == IF name \in DOMAIN obj THEN obj[name] ELSE NaN

\* a > b and a < b on JS numbers.
JsGt(a, b) == ~IsNaN(a) /\ ~IsNaN(b) /\ a > b

JsLt(a, b) == ~IsNaN(a) /\ ~IsNaN(b) /\ a < b

\* The plausible bug of an else-if chain: a recommendation is pushed only
\* while none has been.
PushIfFirst(recommendations, condition, recommendation) ==
  IF condition /\ recommendations = << >>
  THEN Append(recommendations, recommendation)
  ELSE recommendations

\* if (condition) { report.recommendations.push(recommendation) }.
PushIf(recommendations, condition, recommendation) ==
  IF condition THEN Append(recommendations, recommendation) ELSE recommendations

\* MetricsCalculator.generateReport: report.recommendations.  A
\* recommendation is the tuple of the parts its text is concatenated from.
\* avgLoadFactor is in hundredths (toFixed(2)), rul and mtbf in tenths.
GenerateReport(fleetKPIs, anomalyMetrics, voltageSagAnalysis, lifetimeMetrics) ==
  LET r1 == PushIf(<< >>, JsGt(NumberAt(anomalyMetrics, "count"), 5),
              <<"High anomaly count detected - recommend maintenance inspection">>)
      r2 == PushIf(r1, JsGt(NumberAt(fleetKPIs, "eStopCount"), 3),
              <<"Multiple E-Stop events - investigate safety concerns">>)
      r3 == PushIf(r2, JsLt(NumberAt(fleetKPIs, "avgLoadFactor"), 50),
              <<"Low load factor - check for underloading or inefficient operation">>)
      r4 == PushIf(r3, JsGt(NumberAt(voltageSagAnalysis.severity, "critical"), 0),
              <<"Critical voltage sags detected - check power supply quality">>)
      r5 == PushIf(r4, JsLt(NumberAt(lifetimeMetrics, "rul"), 200),
              <<"Machine approaching end-of-life - plan replacement within ",
                lifetimeMetrics.rulDays, " days">>)
      r6 == PushIf(r5, JsLt(NumberAt(lifetimeMetrics, "mtbf"), 1000),
              <<"Low MTBF indicates poor reliability - investigate recurring failure modes">>)
  IN r6

\* ================================================ wide-shape Dashboard

\* A string that is not there: undefined as a device_id or location.
Undefined == "undefined"

RequiredColumns == <<"device_id", "cycle_started_at", "cycle_duration_ms">>

\* Longest CSV (data rows) the dashboards are given.
MaxFileRows == 2

\* Rows of the uploaded wide-shape CSVs: two valid cycles and one whose
\* cycle_started_at does not parse.
WideRows ==
  {[device_id |-> "M1", location |-> "L1", cycle_started_at |-> 10000,
    cycle_duration_ms |-> 10],
   [device_id |-> "M2", location |-> "L2", cycle_started_at |-> 9000,
    cycle_duration_ms |-> 20],
   [device_id |-> "M1", location |-> "L2", cycle_started_at |-> NaN,
    cycle_duration_ms |-> 10]}

AllColumns == {"device_id", "location", "cycle_started_at", "cycle_duration_ms"}

\* The files a user can pick: unreadable ones, and
\* CSVs whose header has every column or lacks cycle_duration_ms.
WideFiles ==
  {[readable |-> FALSE, columns |-> {}, rows |-> << >>]}
  \cup {[readable |-> TRUE, columns |-> c, rows |-> r] :
          c \in {AllColumns, AllColumns \ {"cycle_duration_ms"}},
          r \in SeqsUpTo(WideRows, MaxFileRows)}

\* What the server (window.fs, or fetch) holds under the telemetry file's
\* name: nothing readable, or a CSV.
ServerFiles == {f \in WideFiles : ~f.readable \/ Len(f.rows) = 1}

\* Papa.parse(csvContent, {header: true, ...}).data: a row has the fields of
\* the header only; reading another gives undefined, which is NaN in the
\* arithmetic and the Date of processCSVData.
PapaParse(file) ==
  [i \in 1..Len(file.rows) |->
     [device_id |-> IF "device_id" \in file.columns
                    THEN file.rows[i].device_id ELSE Undefined,
      location |-> IF "location" \in file.columns
                   THEN file.rows[i].location ELSE Undefined,
      cycle_started_at |-> IF "cycle_started_at" \in file.columns
                           THEN file.rows[i].cycle_started_at ELSE NaN,
      cycle_duration_ms |-> IF "cycle_duration_ms" \in file.columns
                            THEN file.rows[i].cycle_duration_ms ELSE NaN]]

\* requiredColumns.filter(col => !columns.includes(col)).
MissingColumns(columns) ==
  SelectSeq(RequiredColumns, LAMBDA col : col \notin columns)

\* What processCSVData does to the component: the try block's setters on
\* success, the catch block's on a throw.
Installed(processedData) ==
  [originalData |-> processedData, data |-> processedData, loading |-> FALSE,
   errorMessage |-> << >>]

\* The catch block of processCSVData (and of loadData).
Failed(message) ==
  [originalData |-> << >>, data |-> << >>, loading |-> FALSE,
   errorMessage |-> message]

\* processCSVData of part_001's Dashboard.
ProcessCSVDataChecked(file) ==
  LET parsed == PapaParse(file)
      missingColumns == MissingColumns(file.columns)
      processedData == NormalizeRows(parsed)
  IN IF Len(parsed) = 0
       THEN Failed(<<"The CSV file is empty or could not be parsed">>)
     ELSE IF Len(missingColumns) > 0
       THEN Failed(<<"Missing required columns">> \o missingColumns)
     ELSE IF Len(processedData) = 0
       THEN Failed(<<"No valid data rows found after processing">>)
     ELSE Installed(processedData)

\* processCSVData of Dashboard.js's Dashboard.
ProcessCSVDataPlain(file) ==
  LET parsed == PapaParse(file)
  IN IF Len(parsed) = 0 THEN Failed(<<"Empty CSV file">>)
     ELSE Installed(NormalizeRows(parsed))

ProcessCSVData(variant, file) ==
  IF variant = "location" THEN ProcessCSVDataChecked(file)
  ELSE ProcessCSVDataPlain(file)

\* The catch block of handleFileUpload: the read itself failed.
ReadFailed(state) ==
  [originalData |-> state.originalData, data |-> state.data, loading |-> FALSE,
   errorMessage |-> <<"Failed to read file.">>]

\* useState's initial values.
WideConstructed ==
  /\ originalData = << >>
  /\ data = << >>
  /\ loading = TRUE
  /\ errorMessage = << >>
  /\ selectedDevice = "all"
  /\ selectedLocation = "all"
  /\ selectedTimeRange = "7d"
  /\ wPending = << >>
  /\ wParsedRows = 0

\* The wide-shape component when another component is under check.
WideIdle == wVariant = "location" /\ WideConstructed

WideInit == wVariant \in {"location", "plain"} /\ WideConstructed

\* The mount effect.  part_001's Dashboard stops with a message when
\* window.fs is missing; otherwise loadData() starts and awaits its read.
Mount ==
  /\ loading /\ wPending = << >>
  /\ \/ /\ wVariant = "location"
        /\ errorMessage' = <<"Please upload a CSV file using the upload button.">>
        /\ loading' = FALSE
        /\ UNCHANGED wPending
     \/ /\ \E file \in ServerFiles : wPending' = <<[kind |-> "load", file |-> file]>>
        /\ UNCHANGED <<loading, errorMessage>>
  /\ UNCHANGED <<wVariant, wParsedRows, originalData, data, selectedDevice, selectedLocation,
                 selectedTimeRange>>
  /\ UNCHANGED notWide

\* The useEffect on [selectedDevice, selectedLocation, selectedTimeRange,
\* originalData]: applyFilters with the values of the render after a handler.
\* It closes every handler that sets one of them.
RunEffect(newOriginal, newData, device, location, timeRange) ==
  LET after == ApplyFilters(newOriginal, newData, device, location, timeRange)
  IN /\ originalData' = after.originalData
     /\ data' = after.data

\* The main view is rendered: not loading and a dataset installed.
MainView == ~loading /\ Len(originalData) > 0

\* The upload screen is rendered: not loading and no dataset.
UploadView == ~loading /\ Len(originalData) = 0

\* handleFileUpload up to its await: the file input of either view changed.
HandleFileUpload(file) ==
  /\ MainView \/ UploadView
  /\ loading' = TRUE
  /\ errorMessage' = << >>
  /\ wPending' = <<[kind |-> "upload", file |-> file]>>
  /\ UNCHANGED <<wVariant, wParsedRows, originalData, data, selectedDevice, selectedLocation,
                 selectedTimeRange>>
  /\ UNCHANGED notWide

\* loadData up to its await: the refresh button of the main view.
LoadData(file) ==
  /\ MainView
  /\ loading' = TRUE
  /\ errorMessage' = << >>
  /\ wPending' = <<[kind |-> "load", file |-> file]>>
  /\ UNCHANGED <<wVariant, wParsedRows, originalData, data, selectedDevice, selectedLocation,
                 selectedTimeRange>>
  /\ UNCHANGED notWide

\* The awaited read settles and the handler runs to its end: processCSVData
\* on the text, or the catch block when the read failed.
ReadSettles ==
  /\ wPending # << >>
  /\ LET request == wPending[1]
         now == [originalData |-> originalData, data |-> data]
         result ==
           IF request.file.readable THEN ProcessCSVData(wVariant, request.file)
           ELSE IF request.kind = "upload" THEN ReadFailed(now)
           ELSE Failed(<<"Please upload CSV file">>)
     IN /\ loading' = result.loading
        /\ errorMessage' = result.errorMessage
        /\ RunEffect(result.originalData, result.data, selectedDevice,
                     selectedLocation, selectedTimeRange)
  /\ wParsedRows' = IF wPending[1].file.readable
                    THEN Len(PapaParse(wPending[1].file)) ELSE 0
  /\ wPending' = << >>
  /\ UNCHANGED <<wVariant, selectedDevice, selectedLocation, selectedTimeRange>>
  /\ UNCHANGED notWide

\* _.uniqBy(originalData, 'device_id').map(d => d.device_id): the options of
\* the device select, besides 'all'.
DeviceOptions == {originalData[i].device_id : i \in 1..Len(originalData)}

\* _.uniq(originalData.map(d => d.location)).
LocationOptions == {originalData[i].location : i \in 1..Len(originalData)}

SetSelectedDevice(device) ==
  /\ MainView
  /\ selectedDevice' = device
  /\ RunEffect(originalData, data, device, selectedLocation, selectedTimeRange)
  /\ UNCHANGED <<wVariant, wParsedRows, loading, errorMessage, selectedLocation,
                 selectedTimeRange, wPending>>
  /\ UNCHANGED notWide

SetSelectedLocation(location) ==
  /\ MainView
  /\ wVariant = "location"
  /\ selectedLocation' = location
  /\ RunEffect(originalData, data, selectedDevice, location, selectedTimeRange)
  /\ UNCHANGED <<wVariant, wParsedRows, loading, errorMessage, selectedDevice,
                 selectedTimeRange, wPending>>
  /\ UNCHANGED notWide

SetSelectedTimeRange(timeRange) ==
  /\ MainView
  /\ selectedTimeRange' = timeRange
  /\ RunEffect(originalData, data, selectedDevice, selectedLocation, timeRange)
  /\ UNCHANGED <<wVariant, wParsedRows, loading, errorMessage, selectedDevice,
                 selectedLocation, wPending>>
  /\ UNCHANGED notWide

WideNext ==
  \/ Mount
  \/ \E file \in WideFiles : HandleFileUpload(file)
  \/ \E file \in ServerFiles : LoadData(file)
  \/ ReadSettles
  \/ \E device \in {"all"} \cup DeviceOptions : SetSelectedDevice(device)
  \/ \E location \in {"all"} \cup LocationOptions : SetSelectedLocation(location)
  \/ \E timeRange \in WideTimeRanges : SetSelectedTimeRange(timeRange)

\* ============================================ long-shape TimeSeriesDashboard

\* An empty CSV field: null under dynamicTyping, falsy in the step callback.
Null == -2000000

batchSize == 10000

\* Longest long-shape CSV (data rows) the dashboard is given.
MaxLongRows == 2

\* Rows of the uploaded long-shape CSVs.  Time is the instant its text denotes,
\* NaN for a text that is no date, Null for an empty field.
LongRows ==
  {[Time |-> 10, deviceId |-> "D1", measure_name |-> "cycle.durationS",
    measure_value |-> 5],
   [Time |-> 0, deviceId |-> "D1", measure_name |-> "DI1_KM",
    measure_value |-> 1],
   [Time |-> 0, deviceId |-> "D2", measure_name |-> "cycle.durationS",
    measure_value |-> 7],
   [Time |-> Null, deviceId |-> "D1", measure_name |-> "DI1_KM",
    measure_value |-> 1]}

\* The files a user can pick: one whose text() rejects, and CSVs.
LongFiles ==
  {[readable |-> FALSE, rows |-> << >>]}
  \cup {[readable |-> TRUE, rows |-> r] : r \in SeqsUpTo(LongRows, MaxLongRows)}

\* The test of the step callback: row.data.Time && row.data.deviceId &&
\* row.data.measure_name.
StepAccepts(row) ==
  row.Time # Null /\ row.deviceId # "" /\ row.measure_name # ""

\* The plausible bug of one row buffer shared by every parse.
SharedAllRows(rawData) == rawData

\* const allRows = []: each parseCSV call starts a buffer of its own,
\* whatever is installed.
NewAllRows(rawData) == << >>

\* The values of a list without repetition, in order of first occurrence:
\* the key order of the object _.groupBy builds.
RECURSIVE Distinct(_)
Distinct(s) ==
  IF s = << >> THEN << >>
  ELSE LET front == Distinct(SubSeq(s, 1, Len(s) - 1))
           last == s[Len(s)]
       IN IF \E i \in 1..Len(front) : front[i] = last THEN front
          ELSE Append(front, last)

\* The plausible bug of crediting the last row only to a point with no
\* value under the name yet: the first row of the input wins.
RECURSIVE AssignMeasuresFirstWins(_, _)
AssignMeasuresFirstWins(point, measures) ==
  IF measures = << >> THEN point
  ELSE LET m == Head(measures)
           assigned == [name \in DOMAIN point \cup {m.measure_name} |->
                          IF name \in DOMAIN point THEN point[name]
                          ELSE m.measure_value]
       IN AssignMeasuresFirstWins(assigned, Tail(measures))

\* measures.forEach(m => { point[m.measure_name] = m.measure_value }).
RECURSIVE AssignMeasures(_, _)
AssignMeasures(point, measures) ==
  IF measures = << >> THEN point
  ELSE LET m == Head(measures)
           assigned == [name \in DOMAIN point \cup {m.measure_name} |->
                          IF name = m.measure_name THEN m.measure_value
                          ELSE point[name]]
       IN AssignMeasures(assigned, Tail(measures))

\* The point built for one Time key of one device.  (timeStr, a display
\* string, is left out.)
Point(time, measures) ==
  AssignMeasures([time |-> time, timestamp |-> time], measures)

\* Array.prototype.sort((a, b) => a.timestamp - b.timestamp): stable; a
\* comparison with NaN moves nothing.
RECURSIVE InsertByTimestamp(_, _)
InsertByTimestamp(sorted, point) ==
  IF sorted = << >> THEN <<point>>
  ELSE LET last == sorted[Len(sorted)]
       IN IF ~IsNaN(last.timestamp) /\ ~IsNaN(point.timestamp)
             /\ last.timestamp > point.timestamp
          THEN Append(InsertByTimestamp(SubSeq(sorted, 1, Len(sorted) - 1), point),
                      last)
          ELSE Append(sorted, point)

RECURSIVE SortByTimestamp(_)
SortByTimestamp(points) ==
  IF points = << >> THEN << >>
  ELSE InsertByTimestamp(SortByTimestamp(SubSeq(points, 1, Len(points) - 1)),
                         points[Len(points)])

\* Object.entries(byTime).map(...): the points of one device before the
\* sort, one per Time key, in key order.
PointsOf(deviceId, rows) ==
  LET deviceRows == SelectSeq(rows, LAMBDA r : r.deviceId = deviceId)
      times == Distinct([i \in 1..Len(deviceRows) |-> deviceRows[i].Time])
  IN [k \in 1..Len(times) |->
        Point(times[k], SelectSeq(deviceRows, LAMBDA r : r.Time = times[k]))]

\* t => t['cycle.durationS'] !== undefined.
IsCycleSummary(t) == "cycle.durationS" \in DOMAIN t

\* The plausible bug of an exclusive classification: a cycle summary is no
\* real-time sample.
IsRealTimeOnly(t) ==
  /\ "cycle.durationS" \notin DOMAIN t
  /\ \/ "voltage.U1" \in DOMAIN t
     \/ "DI1_KM" \in DOMAIN t
     \/ "temperature.ambient" \in DOMAIN t

\* t => t['voltage.U1'] !== undefined || t['DI1_KM'] !== undefined ||
\* t['temperature.ambient'] !== undefined.
IsRealTimeSample(t) ==
  \/ "voltage.U1" \in DOMAIN t
  \/ "DI1_KM" \in DOMAIN t
  \/ "temperature.ambient" \in DOMAIN t

\* processed[deviceId], given the sorted timeSeries.
DatasetOf(deviceId, timeSeries) ==
  [timeSeries |-> timeSeries,
   cycleSummaries |-> SelectSeq(timeSeries, IsCycleSummary),
   realTimeData |-> SelectSeq(timeSeries, IsRealTimeSample),
   deviceId |-> deviceId]

\* processed[deviceId] of pivotLongToWide.
DeviceDataset(deviceId, rows) ==
  DatasetOf(deviceId, SortByTimestamp(PointsOf(deviceId, rows)))

\* DataProcessor.pivotLongToWide: the device datasets in the key order of
\* the object it returns.
PivotLongToWide(rows) ==
  LET deviceIds == Distinct([i \in 1..Len(rows) |-> rows[i].deviceId])
  IN [k \in 1..Len(deviceIds) |-> DeviceDataset(deviceIds[k], rows)]

\* devices: Object.keys(processedData).
DevicesOf(processed) == {processed[k].deviceId : k \in 1..Len(processed)}

NoDateRange == [start |-> << >>, end |-> << >>]

\* useState's initial values.
TsConstructed ==
  /\ tsRawData = << >>
  /\ tsProcessedData = << >>
  /\ tsLoading = FALSE
  /\ tsProgress = 0
  /\ tsSelectedDevice = "all"
  /\ tsErrorMessage = << >>
  /\ tsDateRange = NoDateRange
  /\ tsTimeRange = "all"
  /\ tsPending = << >>
  /\ tsParse = << >>
  /\ tsInstalledFile = << >>

\* The file input is rendered: the upload screen or the main view, neither
\* of which shows while loading.
TsIdle == ~tsLoading

\* The main view is rendered: currentDevice is defined.
TsMainView == ~tsLoading /\ Len(tsProcessedData) > 0

\* TimeSeriesDashboard.handleFileUpload up to its await.
TsHandleFileUpload(file) ==
  /\ TsIdle
  /\ tsLoading' = TRUE
  /\ tsProgress' = 0
  /\ tsErrorMessage' = << >>
  /\ tsPending' = <<file>>
  /\ UNCHANGED <<tsRawData, tsProcessedData, tsSelectedDevice, tsDateRange,
                 tsTimeRange, tsParse, tsInstalledFile>>
  /\ UNCHANGED notTs

\* The plausible bug of a handler without the catch block: the rejection
\* ends the handler and nothing is set.
TsReadRejectsUncaught ==
  /\ tsPending # << >>
  /\ ~tsPending[1].readable
  /\ tsPending' = << >>
  /\ UNCHANGED <<tsRawData, tsProcessedData, tsLoading, tsProgress,
                 tsSelectedDevice, tsErrorMessage, tsDateRange, tsTimeRange,
                 tsParse, tsInstalledFile>>
  /\ UNCHANGED notTs

\* file.text() rejects: the catch block of handleFileUpload.
TsReadRejects ==
  /\ tsPending # << >>
  /\ ~tsPending[1].readable
  /\ tsErrorMessage' = <<"Failed to read file.">>
  /\ tsLoading' = FALSE
  /\ tsPending' = << >>
  /\ UNCHANGED <<tsRawData, tsProcessedData, tsProgress, tsSelectedDevice,
                 tsDateRange, tsTimeRange, tsParse, tsInstalledFile>>
  /\ UNCHANGED notTs

\* file.text() resolves: DataProcessor.parseCSV starts on the text.
TsReadResolves ==
  /\ tsPending # << >>
  /\ tsPending[1].readable
  /\ tsParse' = <<[rest |-> tsPending[1].rows,
                   allRows |-> NewAllRows(tsRawData),
                   processedCount |-> 0,
                   file |-> tsPending[1]]>>
  /\ tsPending' = << >>
  /\ UNCHANGED <<tsRawData, tsProcessedData, tsLoading, tsProgress,
                 tsSelectedDevice, tsErrorMessage, tsDateRange, tsTimeRange,
                 tsInstalledFile>>
  /\ UNCHANGED notTs

\* The plausible bug of a progress without the cap.
UncappedProgress(processedCount, fullCount) ==
  (processedCount * 100) \div fullCount

\* Math.min(90, (processedCount / fullCount) * 100), fullCount being the
\* 100000 of Dashboard.js and the 5000 of TimeSeriesDashboard.js.
CappedProgress(processedCount, fullCount) ==
  IF (processedCount * 100) \div fullCount < 90
  THEN (processedCount * 100) \div fullCount ELSE 90

\* The onProgress calls of the step callback over the rows from the i-th
\* on, processedCount rows having been accepted before.
RECURSIVE StepCalls(_, _, _, _)
StepCalls(rows, i, processedCount, config) ==
  IF i > Len(rows) THEN << >>
  ELSE IF StepAccepts(rows[i])
    THEN (IF (processedCount + 1) % config.batchSize = 0
          THEN <<[call |-> "onProgress",
                  value |-> CappedProgress(processedCount + 1, config.fullCount)]>>
          ELSE << >>)
         \o StepCalls(rows, i + 1, processedCount + 1, config)
    ELSE StepCalls(rows, i + 1, processedCount, config)

\* DataProcessor.parseCSV: the calls it makes of onProgress and onComplete,
\* in order, for a text of the given rows.
ParseCSVCalls(rows, config) ==
  StepCalls(rows, 1, 0, config)
  \o <<[call |-> "onProgress", value |-> 95],
       [call |-> "onComplete", rows |-> SelectSeq(rows, StepAccepts)],
       [call |-> "onProgress", value |-> 100]>>

\* Math.min(90, (processedCount / 100000) * 100).
BatchProgress(processedCount) ==
  IF processedCount \div 1000 < 90 THEN processedCount \div 1000 ELSE 90

\* The step callback on the next row of the text.
ParseStep ==
  /\ tsParse # << >>
  /\ tsParse[1].rest # << >>
  /\ LET call == tsParse[1]
         row == Head(call.rest)
         processedCount == call.processedCount + 1
     IN IF StepAccepts(row)
        THEN /\ tsParse' = <<[call EXCEPT !.rest = Tail(@),
                                          !.allRows = Append(@, row),
                                          !.processedCount = processedCount]>>
             /\ tsProgress' = IF processedCount % batchSize = 0
                              THEN BatchProgress(processedCount)
                              ELSE tsProgress
        ELSE /\ tsParse' = <<[call EXCEPT !.rest = Tail(@)]>>
             /\ UNCHANGED tsProgress
  /\ UNCHANGED <<tsRawData, tsProcessedData, tsLoading, tsSelectedDevice,
                 tsErrorMessage, tsDateRange, tsTimeRange, tsPending,
                 tsInstalledFile>>
  /\ UNCHANGED notTs

\* The complete callback: onProgress(95), onComplete(allRows), onProgress(100).
ParseComplete ==
  /\ tsParse # << >>
  /\ tsParse[1].rest = << >>
  /\ LET rows == tsParse[1].allRows
         pivoted == PivotLongToWide(rows)
     IN /\ tsRawData' = rows
        /\ tsProcessedData' = pivoted
  /\ tsLoading' = FALSE
  /\ tsProgress' = 100
  /\ tsInstalledFile' = <<tsParse[1].file>>
  /\ tsParse' = << >>
  /\ UNCHANGED <<tsSelectedDevice, tsErrorMessage, tsDateRange, tsTimeRange,
                 tsPending>>
  /\ UNCHANGED notTs

\* useMemo currentDevice: << >> is undefined, else <<dataset>>.
CurrentDevice(processedData, device) ==
  IF device = "all" \/ device \notin DevicesOf(processedData)
  THEN IF processedData = << >> THEN << >> ELSE <<processedData[1]>>
  ELSE <<processedData[CHOOSE k \in 1..Len(processedData) :
                         processedData[k].deviceId = device]>>

\* useMemo filteredCycles: the cycle summaries handed to the metrics.
FilteredCycles ==
  LET currentDevice == CurrentDevice(tsProcessedData, tsSelectedDevice)
  IN IF currentDevice = << >> THEN << >>
     ELSE LongApplyFilters(currentDevice[1].cycleSummaries, tsDateRange, tsTimeRange)

\* useMemo filteredRealTime: the real-time samples handed to the metrics.
FilteredRealTime ==
  LET currentDevice == CurrentDevice(tsProcessedData, tsSelectedDevice)
  IN IF currentDevice = << >> THEN << >>
     ELSE LongApplyFilters(currentDevice[1].realTimeData, tsDateRange, tsTimeRange)

\* The device select of the main view: one option per device.
TsSetSelectedDevice(device) ==
  /\ TsMainView
  /\ tsSelectedDevice' = device
  /\ UNCHANGED <<tsRawData, tsProcessedData, tsLoading, tsProgress,
                 tsErrorMessage, tsDateRange, tsTimeRange, tsPending, tsParse,
                 tsInstalledFile>>
  /\ UNCHANGED notTs

TsSetTimeRange(timeRange) ==
  /\ TsMainView
  /\ tsTimeRange' = timeRange
  /\ UNCHANGED <<tsRawData, tsProcessedData, tsLoading, tsProgress,
                 tsSelectedDevice, tsErrorMessage, tsDateRange, tsPending,
                 tsParse, tsInstalledFile>>
  /\ UNCHANGED notTs

\* The two datetime-local inputs: setDateRange({...dateRange, start}) and
\* setDateRange({...dateRange, end}).
TsSetDateRange(field, value) ==
  /\ TsMainView
  /\ tsDateRange' = [tsDateRange EXCEPT ![field] = value]
  /\ UNCHANGED <<tsRawData, tsProcessedData, tsLoading, tsProgress,
                 tsSelectedDevice, tsErrorMessage, tsTimeRange, tsPending,
                 tsParse, tsInstalledFile>>
  /\ UNCHANGED notTs

ClearFilters ==
  /\ TsMainView
  /\ tsDateRange' = NoDateRange
  /\ tsTimeRange' = "all"
  /\ UNCHANGED <<tsRawData, tsProcessedData, tsLoading, tsProgress,
                 tsSelectedDevice, tsErrorMessage, tsPending, tsParse,
                 tsInstalledFile>>
  /\ UNCHANGED notTs

\* The values typed into the datetime-local inputs: cleared, or a date.
DateInputs == {<< >>, <<0>>}

TsNext ==
  \/ \E file \in LongFiles : TsHandleFileUpload(file)
  \/ TsReadRejects
  \/ TsReadResolves
  \/ ParseStep
  \/ ParseComplete
  \/ \E device \in DevicesOf(tsProcessedData) : TsSetSelectedDevice(device)
  \/ \E timeRange \in {"all", "1h"} : TsSetTimeRange(timeRange)
  \/ \E field \in {"start", "end"}, value \in DateInputs :
       TsSetDateRange(field, value)
  \/ ClearFilters

\* ================================================= FileUploader dashboard

\* Most file reads started in one run.
MaxUploads == 2

\* Rows of the long-shape CSVs given to FileUploader.  measure_value is the
\* number parseFloat reads, NaN when it reads none.
UploaderRows ==
  {[Time |-> 0, deviceId |-> "D1", measure_name |-> "cycle.durationS",
    measure_value |-> 5],
   [Time |-> 250, deviceId |-> "D2", measure_name |-> "DI1_KM",
    measure_value |-> NaN],
   [Time |-> NaN, deviceId |-> "D1", measure_name |-> "cycle.durationS",
    measure_value |-> 7]}

UploaderFiles ==
  {[readable |-> FALSE, rows |-> << >>]}
  \cup {[readable |-> TRUE, rows |-> r] : r \in SeqsUpTo(UploaderRows, MaxFileRows)}

\* DataUtils.parseCSV: one object per line after the header.
ParseCSV(file) == file.rows

\* new Date(row.Time).toISOString() throws a RangeError on an invalid date.
ToISOStringThrows(rows) == \E i \in 1..Len(rows) : IsNaN(rows[i].Time)

\* date.toISOString().split('T')[0]: the day, counted from 1970-01-01.
DayKey(time) == time \div (24 * TicksPerHour)

\* The entry processByDay pushes for a row: value is parseFloat(...) || 0.
DayEntry(row) ==
  [time |-> row.Time, timestamp |-> row.Time, deviceId |-> row.deviceId,
   measure |-> row.measure_name,
   value |-> IF IsNaN(row.measure_value) THEN 0 ELSE row.measure_value]

\* DataUtils.processByDay on rows with valid times: the days in key order,
\* each with its entries in row order.
ProcessByDay(rows) ==
  LET days == Distinct([i \in 1..Len(rows) |-> DayKey(rows[i].Time)])
  IN [k \in 1..Len(days) |->
        [day |-> days[k],
         entries |->
           LET ofDay == SelectSeq(rows, LAMBDA r : DayKey(r.Time) = days[k])
           IN [i \in 1..Len(ofDay) |-> DayEntry(ofDay[i])]]]

\* Object.values(byDay).flat().filter(d => d.measure ===
\* 'cycle.durationS').length.
TotalCycles(byDay) ==
  SeqSum([k \in 1..Len(byDay) |->
            Len(SelectSeq(byDay[k].entries,
                          LAMBDA d : d.measure = "cycle.durationS"))])

\* The fields of stats this model keeps: totalCycles and deviceId
\* (parsed[0]?.deviceId || 'N/A').
StatsOf(parsed, byDay) ==
  [totalCycles |-> TotalCycles(byDay),
   deviceId |-> IF Len(parsed) > 0 /\ parsed[1].deviceId # ""
                THEN parsed[1].deviceId ELSE "N/A"]

\* useState's initial values; no read started.
UpConstructed ==
  /\ csvData = << >>
  /\ upProcessedData = << >>
  /\ isLoading = FALSE
  /\ stats = [totalCycles |-> 0, deviceId |-> "N/A"]
  /\ upReaders = {}
  /\ upStarted = 0
  /\ upInstalledBy = 0

\* FileUploader.handleFileUpload: a new FileReader starts reading the file.
\* The input is disabled only while isLoading.
UpHandleFileUpload(file) ==
  /\ ~isLoading
  /\ upStarted < MaxUploads
  /\ upStarted' = upStarted + 1
  /\ upReaders' = upReaders \cup {[id |-> upStarted + 1, file |-> file]}
  /\ UNCHANGED <<csvData, upProcessedData, isLoading, stats, upInstalledBy>>
  /\ UNCHANGED notUp

\* reader.onload: onFileLoad(event.target.result), that is handleFileLoad
\* run to its end.  When processByDay throws, csvData is already set and the
\* catch block only resets isLoading.
ReaderOnload(reader) ==
  /\ reader \in upReaders
  /\ reader.file.readable
  /\ LET parsed == ParseCSV(reader.file)
     IN /\ csvData' = <<parsed>>
        /\ IF ToISOStringThrows(parsed)
           THEN UNCHANGED <<upProcessedData, stats>>
           ELSE LET byDay == ProcessByDay(parsed)
                IN /\ upProcessedData' = byDay
                   /\ stats' = StatsOf(parsed, byDay)
  /\ isLoading' = FALSE
  /\ upReaders' = upReaders \ {reader}
  /\ upInstalledBy' = reader.id
  /\ UNCHANGED upStarted
  /\ UNCHANGED notUp

\* The read fails: the reader has no onerror and nothing else happens.
ReaderError(reader) ==
  /\ reader \in upReaders
  /\ ~reader.file.readable
  /\ upReaders' = upReaders \ {reader}
  /\ UNCHANGED <<csvData, upProcessedData, isLoading, stats, upStarted,
                 upInstalledBy>>
  /\ UNCHANGED notUp

UpNext ==
  \/ \E file \in UploaderFiles : UpHandleFileUpload(file)
  \/ \E reader \in upReaders : ReaderOnload(reader)
  \/ \E reader \in upReaders : ReaderError(reader)

\* ============================================ the components on their own

WideAlone == WideInit /\ TsConstructed /\ UpConstructed /\ FnIdle

SpecWide == WideAlone /\ [][WideNext]_vars

TsAlone == TsConstructed /\ WideIdle /\ UpConstructed /\ FnIdle

SpecLong == TsAlone /\ [][TsNext]_vars

\* The files of the uploads whose termination is checked: one whose text()
\* rejects, an empty CSV, one of a single accepted row, one of a single
\* rejected row, and one of two rows of two devices.
LiveFiles ==
  {f \in LongFiles :
     \/ Len(f.rows) <= 1
     \/ /\ Len(f.rows) = 2
        /\ f.rows[1].deviceId = "D1" /\ f.rows[1].Time = 10
        /\ f.rows[2].deviceId = "D2"}

TsLiveNext ==
  \/ \E file \in LiveFiles : TsHandleFileUpload(file)
  \/ TsReadRejects
  \/ TsReadResolves
  \/ ParseStep
  \/ ParseComplete
  \/ \E device \in DevicesOf(tsProcessedData) : TsSetSelectedDevice(device)
  \/ \E timeRange \in {"all", "1h"} : TsSetTimeRange(timeRange)
  \/ \E field \in {"start", "end"}, value \in DateInputs :
       TsSetDateRange(field, value)
  \/ ClearFilters

\* The long-shape dashboard with the scheduling the host gives: a read that
\* has been started settles, and Papa.parse on a string runs its step and
\* complete callbacks to the end without yielding.
SpecLongLive ==
  /\ TsAlone
  /\ [][TsLiveNext]_vars
  /\ WF_vars(TsReadRejects)
  /\ WF_vars(TsReadResolves)
  /\ WF_vars(ParseStep)
  /\ WF_vars(ParseComplete)

UpAlone == UpConstructed /\ WideIdle /\ TsConstructed /\ FnIdle

SpecUploader == UpAlone /\ [][UpNext]_vars

\* =================================================== pure-function state

\* ------------------------------------------------- inputs of the filters

WideFilterTimes == {-50, 2000, 9000, 10000}

\* Parsed rows of a wide-shape CSV, as the filters see them (durations do
\* not matter to a filter).
WideFilterRows ==
  [device_id : Devices, location : Locations,
   cycle_started_at : WideFilterTimes, cycle_duration_ms : {10}]

WideSelections == [device : {"all"} \cup Devices, location : {"all"} \cup Locations]

LongFilterTimes == {NaN, 0, 150, 200}

LongFilterPoints == [timestamp : LongFilterTimes]

NoDate == << >>

DateRanges ==
  {[start |-> NoDate, end |-> NoDate],
   [start |-> <<0>>, end |-> NoDate],
   [start |-> <<0>>, end |-> <<160>>]}

WideFilterInputs ==
  {[kind |-> "wide", data |-> NormalizeRows(rows), device |-> sel.device,
    location |-> sel.location, timeRange |-> r] :
     rows \in SeqsUpTo(WideFilterRows, MaxRecs), sel \in WideSelections,
     r \in WideTimeRanges}

LongFilterInputs ==
  {[kind |-> "long", data |-> points, dateRange |-> dr, timeRange |-> r] :
     points \in SeqsUpTo(LongFilterPoints, MaxRecs), dr \in DateRanges,
     r \in LongTimeRanges}

FilterInit ==
  /\ WideIdle /\ TsConstructed /\ UpConstructed
  /\ fnPc = "input"
  /\ fnIn \in WideFilterInputs \cup LongFilterInputs
  /\ fnOut = NoOutput

\* One run of the filter on the drawn dataset: its result, its result under
\* each time range, and the cutoff it computed under each other selection.
FilterOnce ==
  /\ fnPc = "input"
  /\ fnPc' = "once"
  /\ \/ /\ fnIn.kind = "wide"
        /\ fnOut' =
             [data |-> ApplyFilters(fnIn.data, << >>, fnIn.device, fnIn.location,
                                    fnIn.timeRange).data,
              byRange |-> [r \in WideTimeRanges |->
                             ApplyFilters(fnIn.data, << >>, fnIn.device,
                                          fnIn.location, r).data],
              cutoffs |-> IF Len(fnIn.data) = 0 THEN {}
                          ELSE {StartDateUsed(fnIn.data, sel.device, sel.location,
                                              fnIn.timeRange) :
                                  sel \in WideSelections}]
     \/ /\ fnIn.kind = "long"
        /\ fnOut' =
             [data |-> LongApplyFilters(fnIn.data, fnIn.dateRange, fnIn.timeRange),
              cutoffs |-> {LongCutoffUsed(fnIn.data, dr, fnIn.timeRange) :
                             dr \in DateRanges} \ {<< >>}]
  /\ UNCHANGED <<fnIn, notFn>>

\* The filter run again, on its own output and with the same criteria.
FilterTwice ==
  /\ fnPc = "once"
  /\ fnPc' = "twice"
  /\ \/ /\ fnIn.kind = "wide"
        /\ fnOut' =
             [once |-> fnOut.data,
              twice |-> ApplyFilters(fnOut.data, fnOut.data, fnIn.device,
                                     fnIn.location, fnIn.timeRange).data]
     \/ /\ fnIn.kind = "long"
        /\ fnOut' =
             [once |-> fnOut.data,
              twice |-> LongApplyFilters(fnOut.data, fnIn.dateRange, fnIn.timeRange)]
  /\ UNCHANGED <<fnIn, notFn>>

FilterNext == FilterOnce \/ FilterTwice

SpecFilter == FilterInit /\ [][FilterNext]_vars

\* ------------------------------------------------- inputs of the metrics

WideMetricTimes == {-50, 0, 5, 250}

WideMetricDurations == {0, 7, 900}

\* Parsed rows of a wide-shape CSV, as the metrics see them.
WideMetricRows ==
  [device_id : Devices, location : {"L1"},
   cycle_started_at : WideMetricTimes, cycle_duration_ms : WideMetricDurations]

LongMetricTimes == {NaN, 0, 1, 250}

\* Cycle summaries: points carrying cycle.durationS.
CyclePoints ==
  {[name \in {"timestamp", "cycle.durationS"} |->
      IF name = "timestamp" THEN t ELSE d] : t \in LongMetricTimes, d \in {0, 5, 50}}

\* Real-time samples: points carrying DI1_KM.
RealTimePoints == [timestamp : LongMetricTimes, DI1_KM : {0, 1}]

\* pivotLongToWide hands over each list sorted by timestamp.
IsSortedByTimestamp(points) ==
  \A i, j \in 1..Len(points) :
    (i < j /\ ~IsNaN(points[i].timestamp) /\ ~IsNaN(points[j].timestamp))
      => points[i].timestamp <= points[j].timestamp

\* Values the settings panel can leave in lifetimeCycleThreshold: the default,
\* a typed number below the cycle count, and parseFloat('') of a cleared
\* field.
LifetimeThresholds == {lifetimeCycleThreshold, 1, NaN}

MetricsInputs ==
  {[kind |-> "wide", data |-> NormalizeRows(rows)] :
     rows \in SeqsUpTo(WideMetricRows, MaxRecs)}
  \cup {[kind |-> "cycles", data |-> c,
          thresholds |-> [alertThresholds EXCEPT !.lifetimeCycleThreshold = th]] :
          c \in {p \in SeqsUpTo(CyclePoints, MaxRecs) : IsSortedByTimestamp(p)},
          th \in LifetimeThresholds}
  \cup {[kind |-> "realTime", data |-> r] :
          r \in {p \in SeqsUpTo(RealTimePoints, MaxRecs) : IsSortedByTimestamp(p)}}

MetricsInit ==
  /\ WideIdle /\ TsConstructed /\ UpConstructed
  /\ fnPc = "input"
  /\ fnIn \in MetricsInputs
  /\ fnOut = NoOutput

\* The useMemo bodies and MetricsCalculator functions, applied to the drawn
\* filtered dataset.
ComputeMetrics ==
  /\ fnPc = "input"
  /\ fnPc' = "done"
  /\ \/ /\ fnIn.kind = "wide"
        /\ fnOut' = [kpis |-> Kpis(fnIn.data), heatmap |-> HeatmapData(fnIn.data)]
     \/ /\ fnIn.kind = "cycles"
        /\ fnOut' = [kpis |-> CalculateFleetKPIs(fnIn.data),
                     lifetime |-> CalculateLifetimeMetrics(fnIn.data,
                                                           fnIn.thresholds)]
     \/ /\ fnIn.kind = "realTime"
        /\ fnOut' = [heatmap |-> CalculateUtilizationHeatmap(fnIn.data)]
  /\ UNCHANGED <<fnIn, notFn>>

MetricsNext == ComputeMetrics

SpecMetrics == MetricsInit /\ [][MetricsNext]_vars

\* ------------------------------------------------ pivotLongToWide alone

\* Longest list of accepted rows handed to pivotLongToWide.
MaxPivotRows == 3

\* The Time texts of the rows: two instants, and a text that is no date
\* (new Date(time) is an Invalid Date, its getTime() NaN).
PivotTimes == {0, 10, NaN}

\* Accepted long-shape rows: every measure at every Time for device D1, a
\* second value for one of them, and a row of a second device.
PivotRows ==
  [Time : PivotTimes, deviceId : {"D1"},
   measure_name : {"cycle.durationS", "DI1_KM", "temperature.ambient",
                   "pressure.hydraulic"},
   measure_value : {1}]
  \cup {[Time |-> 0, deviceId |-> "D1", measure_name |-> "cycle.durationS",
         measure_value |-> 2],
        [Time |-> 0, deviceId |-> "D2", measure_name |-> "DI1_KM",
         measure_value |-> 1]}

\* All orders of a list.
Perms(s) ==
  {[i \in 1..Len(s) |-> s[f[i]]] :
     f \in {g \in [1..Len(s) -> 1..Len(s)] :
              \A i, j \in 1..Len(s) : g[i] = g[j] => i = j}}

\* What .sort((a, b) => a.timestamp - b.timestamp) may leave.  With a NaN
\* timestamp the comparator returns NaN for some pairs and is no consistent
\* comparator, and the order is implementation-defined; otherwise it is the
\* stable ascending order.
SortOutcomes(points) ==
  IF \E i \in 1..Len(points) : IsNaN(points[i].timestamp) THEN Perms(points)
  ELSE {SortByTimestamp(points)}

\* The objects pivotLongToWide may return for a list of rows.
PivotOutcomes(rows) ==
  LET deviceIds == Distinct([i \in 1..Len(rows) |-> rows[i].deviceId])
  IN {processed \in
        [1..Len(deviceIds) ->
           UNION {{DatasetOf(deviceIds[k], ts) :
                     ts \in SortOutcomes(PointsOf(deviceIds[k], rows))} :
                  k \in 1..Len(deviceIds)}] :
        \A k \in 1..Len(deviceIds) : processed[k].deviceId = deviceIds[k]}

PivotInit ==
  /\ WideIdle /\ TsConstructed /\ UpConstructed
  /\ fnPc = "input"
  /\ fnIn \in {[kind |-> "rows", data |-> r] : r \in SeqsUpTo(PivotRows, MaxPivotRows)}
  /\ fnOut = NoOutput

\* DataProcessor.pivotLongToWide(rows), as onComplete calls it.
Pivot ==
  /\ fnPc = "input"
  /\ fnPc' = "done"
  /\ fnOut' \in PivotOutcomes(fnIn.data)
  /\ UNCHANGED <<fnIn, notFn>>

PivotNext == Pivot

SpecPivot == PivotInit /\ [][PivotNext]_vars

\* ------------------------------------------- calculateCycleMetrics alone

\* Longest list of cycle summaries handed to calculateCycleMetrics.
MaxCycles == 5

\* cycle.durationS of the cycle summaries, in whole seconds.
CycleDurations == {0, 9, 10, 11, 20, 100}

\* Cycle summaries as calculateCycleMetrics reads them.
DurationPoints ==
  {[name \in {"cycle.durationS"} |-> d] : d \in CycleDurations}

CycleMetricsInit ==
  /\ WideIdle /\ TsConstructed /\ UpConstructed
  /\ fnPc = "input"
  /\ fnIn \in {[kind |-> "cycleMetrics", data |-> c] :
                 c \in SeqsUpTo(DurationPoints, MaxCycles)}
  /\ fnOut = NoOutput

\* useMemo cycleMetrics: MetricsCalculator.calculateCycleMetrics(filteredCycles).
ComputeCycleMetrics ==
  /\ fnPc = "input"
  /\ fnPc' = "done"
  /\ fnOut' = CalculateCycleMetrics(fnIn.data)
  /\ UNCHANGED <<fnIn, notFn>>

CycleMetricsNext == ComputeCycleMetrics

SpecCycleMetrics == CycleMetricsInit /\ [][CycleMetricsNext]_vars

\* ------------------------------- the wide path: ingest, filter, KPIs

\* Longest CSV (data rows) taken through the wide path.
MaxPathRows == 2

\* Rows of the CSVs: two devices, cycles one hour apart, one more than seven
\* days later and one whose cycle_started_at is no date; durations of one
\* and two hours.
PathRows ==
  [device_id : Devices, location : {"L1"},
   cycle_started_at : {0, 1 * TicksPerHour, 200 * TicksPerHour, NaN},
   cycle_duration_ms : {1 * TicksPerHour, 2 * TicksPerHour}]

\* CSVs with every required column, with and without a location column.
PathFiles ==
  {[readable |-> TRUE, columns |-> c, rows |-> r] :
     c \in {AllColumns, AllColumns \ {"location"}},
     r \in SeqsUpTo(PathRows, MaxPathRows)}

WidePathInit ==
  /\ WideIdle /\ TsConstructed /\ UpConstructed
  /\ fnPc = "input"
  /\ fnIn \in {[kind |-> "widePath", variant |-> v, file |-> f] :
                 v \in {"location", "plain"}, f \in PathFiles}
  /\ fnOut = NoOutput

\* processCSVData on the file's text, the applyFilters effect under the
\* initial selections ('all', 'all', '7d'), and the kpis useMemo on data.
RunWidePath ==
  /\ fnPc = "input"
  /\ fnPc' = "done"
  /\ LET result == ProcessCSVData(fnIn.variant, fnIn.file)
         after == ApplyFilters(result.originalData, result.data, "all", "all", "7d")
     IN fnOut' = [errorMessage |-> result.errorMessage,
                  data |-> after.data,
                  kpis |-> Kpis(after.data)]
  /\ UNCHANGED <<fnIn, notFn>>

WidePathNext == RunWidePath

SpecWidePath == WidePathInit /\ [][WidePathNext]_vars

\* ---------------------------------------------- calculateAnomalies alone

\* Longest list of cycle summaries handed to calculateAnomalies.
MaxAnomalyCycles == 2

\* Cycle summaries as calculateAnomalies reads them: each measure at its
\* threshold or just above it, cycle.overall 0, 1 or 2, and a summary with
\* none of the measures.
AnomalyPoints ==
  {[name \in {"inrush.multiple", "voltageSag.sagDepthPct",
              "workCurrent.unbalancePct", "workCurrent.rippleMaxPct",
              "cycle.overall"} |->
      CASE name = "inrush.multiple" -> alertThresholds.inrushMultiple + i
        [] name = "voltageSag.sagDepthPct" -> alertThresholds.voltageSag + v
        [] name = "workCurrent.unbalancePct" -> alertThresholds.currentUnbalance + u
        [] name = "workCurrent.rippleMaxPct" -> alertThresholds.ripple + r
        [] OTHER -> o] :
     i \in {0, 1}, v \in {0, 1}, u \in {0, 1}, r \in {0, 1}, o \in {0, 1, 2}}
  \cup {[name \in {"cycle.durationS"} |-> 5]}

AnomaliesInit ==
  /\ WideIdle /\ TsConstructed /\ UpConstructed
  /\ fnPc = "input"
  /\ fnIn \in {[kind |-> "anomalies", data |-> c] :
                 c \in SeqsUpTo(AnomalyPoints, MaxAnomalyCycles)}
  /\ fnOut = NoOutput

\* useMemo anomalyMetrics:
\* MetricsCalculator.calculateAnomalies(filteredCycles, alertThresholds).
ComputeAnomalies ==
  /\ fnPc = "input"
  /\ fnPc' = "done"
  /\ fnOut' = CalculateAnomalies(fnIn.data, alertThresholds)
  /\ UNCHANGED <<fnIn, notFn>>

AnomaliesNext == ComputeAnomalies

SpecAnomalies == AnomaliesInit /\ [][AnomaliesNext]_vars

\* ------------------------------------------------- generateReport alone

\* fleetKPIs: {} for no cycles, else counts and means about the rules' limits.
ReportFleetKPIs ==
  {EmptyObject} \cup [eStopCount : {3, 4}, avgLoadFactor : {49, 50}]

\* voltageSagAnalysis: severity is {} for no cycles.
ReportSagAnalyses ==
  {[sags |-> << >>, severity |-> EmptyObject]}
  \cup {[sags |-> << >>, severity |-> [critical |-> c, high |-> 0, medium |-> 0]] :
          c \in {0, 1}}

\* lifetimeMetrics about the rules' limits, and with the rul of a threshold
\* that is no number.
ReportLifetimes ==
  [rul : {199, 200, NaN}, rulDays : {0, 7}, mtbf : {999, 1000}]

ReportInputs ==
  [kind : {"report"},
   fleetKPIs : ReportFleetKPIs,
   anomalyMetrics : [count : {5, 6}],
   voltageSagAnalysis : ReportSagAnalyses,
   lifetimeMetrics : ReportLifetimes]

ReportInit ==
  /\ WideIdle /\ TsConstructed /\ UpConstructed
  /\ fnPc = "input"
  /\ fnIn \in ReportInputs
  /\ fnOut = NoOutput

\* handleGenerateReport: generateReport on the memoised metrics.
HandleGenerateReport ==
  /\ fnPc = "input"
  /\ fnPc' = "done"
  /\ fnOut' = [recommendations |->
                 GenerateReport(fnIn.fleetKPIs, fnIn.anomalyMetrics,
                                fnIn.voltageSagAnalysis, fnIn.lifetimeMetrics)]
  /\ UNCHANGED <<fnIn, notFn>>

ReportNext == HandleGenerateReport

SpecReport == ReportInit /\ [][ReportNext]_vars

\* --------------------- TimeSeriesDashboard.js: the metrics that draw numbers

\* Values of Math.random() the calls are given, in hundredths: the least
\* and one near the greatest.
RandomDraws == {0, 99}

\* date.getDate() of new Date(c.time), for times within the first month
\* after the epoch.  (The label appends ' Oct' to it.)
GetDate(time) == IF IsNaN(time) THEN NaN ELSE time \div TicksPerDay + 1

\* MetricsCalculator.calculateDailyData of TimeSeriesDashboard.js: one entry
\* per date label in order of first occurrence, the last seven.
CalculateDailyData(cycles) ==
  LET dates == Distinct([i \in 1..Len(cycles) |-> GetDate(cycles[i].time)])
      daily == [k \in 1..Len(dates) |->
                  [date |-> dates[k],
                   count |-> Len(SelectSeq(cycles,
                                   LAMBDA c : GetDate(c.time) = dates[k]))]]
  IN LastN(daily, 7)

\* calculateElectricalMetrics of TimeSeriesDashboard.js, given the values
\* Math.random returns during the call: random[k] are the seven drawn for
\* the k-th day.  Values are in hundredths (toFixed(2)).
CalculateElectricalMetrics(cycles, random) ==
  IF Len(cycles) = 0 THEN [inrush |-> << >>, voltage |-> << >>]
  ELSE LET dailyData == CalculateDailyData(cycles)
       IN [inrush |-> [k \in 1..Len(dailyData) |->
                        [date |-> dailyData[k].date,
                         phaseA |-> random[k][1] * 200 + 5000,
                         phaseB |-> random[k][2] * 200 + 5000,
                         phaseC |-> random[k][3] * 200 + 5000]],
           voltage |-> [k \in 1..Len(dailyData) |->
                         [date |-> dailyData[k].date,
                          U1 |-> random[k][4] * 50 + 20000,
                          U2 |-> random[k][5] * 50 + 20000,
                          U3 |-> random[k][6] * 50 + 20000,
                          sag |-> random[k][7] * 100]]]

\* calculateEnergyMetrics of TimeSeriesDashboard.js, three draws a day.
CalculateEnergyMetrics(cycles, random) ==
  IF Len(cycles) = 0 THEN [efficiency |-> << >>]
  ELSE LET dailyData == CalculateDailyData(cycles)
       IN [efficiency |-> [k \in 1..Len(dailyData) |->
                            [date |-> dailyData[k].date,
                             baler1 |-> random[k][1] * 200 + 5000,
                             efficiency |-> random[k][2] * 30 + 7000,
                             powerFactor |-> random[k][3] * 2 + 200]]]

\* calculateAnomalyMetrics of TimeSeriesDashboard.js, four draws a day:
\* Math.floor(Math.random() * n).  (recent, a constant list, is left out.)
CalculateAnomalyMetrics(cycles, random) ==
  IF Len(cycles) = 0 THEN [score |-> 0, breakdown |-> << >>]
  ELSE LET dailyData == CalculateDailyData(cycles)
       IN [score |-> 5,
           breakdown |-> [k \in 1..Len(dailyData) |->
                           [date |-> dailyData[k].date,
                            anomaly1 |-> (random[k][1] * 5) \div 100,
                            anomaly2 |-> (random[k][2] * 8) \div 100,
                            anomaly3 |-> (random[k][3] * 6) \div 100,
                            anomaly4 |-> (random[k][4] * 3) \div 100]]]

\* How many numbers each function draws for a day.
DrawsPerDay(kind) ==
  CASE kind = "electrical" -> 7 [] kind = "energy" -> 3 [] kind = "anomaly" -> 4

\* A cycle summary as pivotLongToWide builds it.
CycleAt(time, durationS) ==
  [name \in {"time", "timestamp", "cycle.durationS"} |->
     IF name = "cycle.durationS" THEN durationS ELSE time]

\* Cycle summaries of one day, and none.
RandomMetricInputs ==
  [kind : {"electrical", "energy", "anomaly"},
   data : {<< >>, <<CycleAt(0, 5)>>, <<CycleAt(0, 5), CycleAt(1, 50)>>}]

RandomMetricInit ==
  /\ WideIdle /\ TsConstructed /\ UpConstructed
  /\ fnPc = "input"
  /\ fnIn \in RandomMetricInputs
  /\ fnOut = NoOutput

\* One call of the function on fnIn.data; the numbers Math.random returns
\* during it are any.  fnOut collects the results of the calls.
CallRandomMetric ==
  /\ fnPc \in {"input", "once"}
  /\ fnPc' = IF fnPc = "input" THEN "once" ELSE "twice"
  /\ \E random \in [1..Len(CalculateDailyData(fnIn.data)) ->
                       [1..DrawsPerDay(fnIn.kind) -> RandomDraws]] :
       fnOut' = Append(fnOut,
                  CASE fnIn.kind = "electrical" ->
                         CalculateElectricalMetrics(fnIn.data, random)
                    [] fnIn.kind = "energy" ->
                         CalculateEnergyMetrics(fnIn.data, random)
                    [] fnIn.kind = "anomaly" ->
                         CalculateAnomalyMetrics(fnIn.data, random))
  /\ UNCHANGED <<fnIn, notFn>>

RandomMetricNext == CallRandomMetric

SpecRandomMetrics == RandomMetricInit /\ [][RandomMetricNext]_vars

\* ------------------------------------------------------- parseCSV alone

\* Longest text (data rows) parseCSV is given on its own.
MaxParseRows == 6

\* The batch size and the accepted-row count shown as 100 % of the two
\* parseCSV, 10000 of 100000 (Dashboard.js) and 1000 of 5000
\* (TimeSeriesDashboard.js), in units of 5000 and of 1000 rows.
ParseConfigs ==
  {[batchSize |-> 2, fullCount |-> 20], [batchSize |-> 1, fullCount |-> 5]}

\* Two rows the step callback accepts and one it rejects.
ParseRows ==
  {[Time |-> 10, deviceId |-> "D1", measure_name |-> "cycle.durationS",
    measure_value |-> 5],
   [Time |-> 0, deviceId |-> "D2", measure_name |-> "DI1_KM",
    measure_value |-> 1],
   [Time |-> Null, deviceId |-> "D1", measure_name |-> "DI1_KM",
    measure_value |-> 1]}

ParseInit ==
  /\ WideIdle /\ TsConstructed /\ UpConstructed
  /\ fnPc = "input"
  /\ fnIn \in [kind : {"parse"}, config : ParseConfigs,
                data : SeqsUpTo(ParseRows, MaxParseRows)]
  /\ fnOut = NoOutput

\* One run of parseCSV with callbacks that log their calls.
RunParseCSV ==
  /\ fnPc = "input"
  /\ fnPc' = "done"
  /\ fnOut' = [calls |-> ParseCSVCalls(fnIn.data, fnIn.config)]
  /\ UNCHANGED <<fnIn, notFn>>

ParseNext == RunParseCSV

SpecParse == ParseInit /\ [][ParseNext]_vars

\* ------------------------- TimeSeriesDashboard.js: calculateChamberFullness

\* The least of 100 and cyclesSinceLastFull / 75 * 100, as the rational
\* num / den.
FullnessPercent(cyclesSinceLastFull) ==
  IF cyclesSinceLastFull * 100 > 100 * 75 THEN [num |-> 100, den |-> 1]
  ELSE [num |-> cyclesSinceLastFull * 100, den |-> 75]

\* Math.round of a non-negative rational.
MathRound(q) == (2 * q.num + q.den) \div (2 * q.den)

\* q < n for a rational q and a whole number n.
RationalLess(q, n) == q.num < n * q.den

\* MetricsCalculator.calculateChamberFullness of TimeSeriesDashboard.js.
CalculateChamberFullness(realTimeData, cycles) ==
  IF Len(realTimeData) = 0
  THEN [percent |-> 0, color |-> "bg-green-600", level |-> "Low"]
  ELSE
    LET fullErrorIndices ==
          {idx \in 1..Len(realTimeData) :
             /\ "DI8_Full_Error" \in DOMAIN realTimeData[idx]
             /\ realTimeData[idx]["DI8_Full_Error"] = 1}
        lastFullErrorIdx ==
          IF fullErrorIndices # {}
          THEN CHOOSE idx \in fullErrorIndices :
                 \A other \in fullErrorIndices : other <= idx
          ELSE 0
        cyclesSinceLastFull ==
          IF lastFullErrorIdx >= 1
          THEN Len(SelectSeq(cycles,
                 LAMBDA c : JsGt(c.timestamp,
                                 realTimeData[lastFullErrorIdx].timestamp)))
          ELSE Len(cycles)
        fullnessPercent == FullnessPercent(cyclesSinceLastFull)
        shown ==
          IF RationalLess(fullnessPercent, 33)
            THEN [color |-> "bg-green-600", level |-> "Low"]
          ELSE IF RationalLess(fullnessPercent, 67)
            THEN [color |-> "bg-yellow-400", level |-> "Medium"]
          ELSE [color |-> "bg-rose-400", level |-> "High"]
    IN [percent |-> MathRound(fullnessPercent),
        color |-> shown.color, level |-> shown.level]

\* Most cycle summaries of the device.
MaxChamberCycles == 80

\* Real-time samples with and without a full-chamber error, and one that
\* lacks the measure.
ChamberSamples ==
  [timestamp : {0, 10}, DI8_Full_Error : {0, 1}]
  \cup {[timestamp |-> 5, DI1_KM |-> 1]}

\* n cycle summaries at the times 1..n.
CyclesUpTo(n) == [i \in 1..n |-> CycleAt(i, 5)]

ChamberInit ==
  /\ WideIdle /\ TsConstructed /\ UpConstructed
  /\ fnPc = "input"
  /\ fnIn \in {[kind |-> "chamber", realTimeData |-> r, cycles |-> CyclesUpTo(n)] :
                 r \in SeqsUpTo(ChamberSamples, 2), n \in 0..MaxChamberCycles}
  /\ fnOut = NoOutput

\* useMemo chamberFullness on the current device's lists.
ComputeChamberFullness ==
  /\ fnPc = "input"
  /\ fnPc' = "done"
  /\ fnOut' = CalculateChamberFullness(fnIn.realTimeData, fnIn.cycles)
  /\ UNCHANGED <<fnIn, notFn>>

ChamberNext == ComputeChamberFullness

SpecChamber == ChamberInit /\ [][ChamberNext]_vars

\* ============================================================ properties

\* C1: filtering is idempotent: the filter applied to its own output, with
\* the same criteria, returns that output again (wide applyFilters with its
\* output as the dataset, and DataProcessor.applyFilters on any point list).
C1_FilterIdempotent == fnPc = "twice" => fnOut.twice = fnOut.once

\* The first run dropped some records and kept others, and the second run ran.
C1_Witness ==
  /\ fnPc = "twice"
  /\ Len(fnOut.once) >= 1
  /\ Len(fnOut.once) < Len(fnIn.data)

\* C5: the reference instant of the relative window comes from the original
\* dataset: for a fixed dataset and time range every selection of device,
\* location or date range computes the same cutoff.
C5_NowFromOriginal ==
  (fnPc = "once" /\ \A i \in 1..Len(fnIn.data) : fnIn.kind = "long" =>
                      ~IsNaN(fnIn.data[i].timestamp))
    => Cardinality(fnOut.cutoffs) <= 1

\* C6: time-window monotonicity of the wide applyFilters: the list for 24h
\* is a sub-list of that for 7d, that of the one for 30d, and that of the one
\* for all.
C6_WindowMonotone ==
  (fnPc = "once" /\ fnIn.kind = "wide") =>
    /\ IsSubSeq(fnOut.byRange["24h"], fnOut.byRange["7d"])
    /\ IsSubSeq(fnOut.byRange["7d"], fnOut.byRange["30d"])
    /\ IsSubSeq(fnOut.byRange["30d"], fnOut.byRange["all"])

\* C8: the wide-shape utilizationRate of a non-empty filtered dataset is
\* within [0, 100] (0..1000 tenths of a percent).
C8_WideUtilizationBounded ==
  (fnPc = "done" /\ fnIn.kind = "wide" /\ Len(fnIn.data) > 0) =>
    fnOut.kpis.utilizationRate \in 0..1000

\* All records share one timestamp and the runtime exceeds devices x window.
C8_Witness ==
  /\ fnPc = "done"
  /\ fnIn.kind = "wide"
  /\ Len(fnIn.data) = MaxRecs
  /\ \A i \in 1..Len(fnIn.data) :
       fnIn.data[i].cycle_started_at = fnIn.data[1].cycle_started_at
  /\ TotalRuntime(fnIn.data) > UniqueDeviceCount(fnIn.data) * HoursInWindow(fnIn.data)
  /\ fnOut.kpis.utilizationRate = 1000

\* C9: the long-shape utilizationRate of calculateFleetKPIs for a non-empty
\* list of cycle summaries is within [0, 100] (0..1000 tenths of a percent).
C9_LongUtilizationBounded ==
  (fnPc = "done" /\ fnIn.kind = "cycles" /\ Len(fnIn.data) > 0) =>
    fnOut.kpis.utilizationRate \in 0..1000

\* The number of real-time samples with DI1_KM = 1.
ActiveSamples(realTimeData) ==
  Cardinality({i \in 1..Len(realTimeData) : realTimeData[i].DI1_KM = 1})

\* C10: heatmap conservation: the 168 raw cell values sum to the filtered
\* records' runtime_hours (wide), to the number of samples with DI1_KM = 1
\* (long).
C10_HeatmapConservation ==
  /\ (fnPc = "done" /\ fnIn.kind = "wide" /\ Len(fnIn.data) > 0) =>
       CellSum(fnOut.heatmap) = TotalRuntime(fnIn.data)
  /\ (fnPc = "done" /\ fnIn.kind = "realTime" /\ Len(fnIn.data) > 0) =>
       CellSum(fnOut.heatmap) = ActiveSamples(fnIn.data)

\* A read settles with an error while a dataset is installed.
UploadFails ==
  /\ wPending # << >> /\ wPending[1].kind = "upload"
  /\ loading /\ ~loading'
  /\ errorMessage' # << >>
  /\ Len(originalData) > 0

\* C2: an upload that fails ingestion while a dataset is installed leaves
\* originalData and data as they were.
C2_FailedUploadKeepsDataset ==
  [][UploadFails => (originalData' = originalData /\ data' = data)]_vars

\* A change of one of the three filter selections.
SelectionChanges ==
  \/ selectedDevice' # selectedDevice
  \/ selectedLocation' # selectedLocation
  \/ selectedTimeRange' # selectedTimeRange

\* C7: a change of selectedDevice, selectedLocation or selectedTimeRange, and
\* the applyFilters run it triggers, leaves originalData unchanged.
C7_FilterKeepsOriginal ==
  [][SelectionChanges => originalData' = originalData]_vars

\* A selection is in force under which applyFilters dropped part of the
\* installed dataset.
C7_Witness ==
  /\ selectedDevice # "all"
  /\ Len(data) >= 1
  /\ Len(data) < Len(originalData)

\* C3: of two overlapping uploads the later-started one supersedes the
\* earlier: csvData is never set from an upload started before the one it
\* was last set from.
C3_LaterUploadSupersedes == [][upInstalledBy' >= upInstalledBy]_vars

\* The rows the step callback keeps of a file.
AcceptedRows(file) == SelectSeq(file.rows, StepAccepts)

\* C4: in every state rawData and processedData are the empty initial
\* dataset or the complete result of the one parse that finished last; the
\* rows a running parse has gathered are not in them.
C4_AtomicSwap ==
  /\ tsInstalledFile = << >> => (tsRawData = << >> /\ tsProcessedData = << >>)
  /\ tsInstalledFile # << >> =>
       /\ tsRawData = AcceptedRows(tsInstalledFile[1])
       /\ tsProcessedData = PivotLongToWide(AcceptedRows(tsInstalledFile[1]))

\* A second file's parse has gathered rows while the first file's dataset is
\* installed.
C4_Witness ==
  /\ tsInstalledFile # << >>
  /\ tsRawData # << >>
  /\ tsParse # << >>
  /\ tsParse[1].file # tsInstalledFile[1]
  /\ tsParse[1].allRows # << >>
  /\ tsParse[1].rest # << >>

\* C11: applied to an empty filtered dataset, every function of the metrics
\* engine returns a defined structure whose numeric fields are all zero and
\* whose lists are all empty.
C11_EmptyInputAllZero ==
  (fnPc = "done" /\ Len(fnIn.data) = 0) =>
    /\ fnIn.kind = "wide" =>
         fnOut.kpis = EmptyObject /\ fnOut.heatmap = EmptyObject
    /\ fnIn.kind = "realTime" => fnOut.heatmap = EmptyObject
    /\ fnIn.kind = "cycles" =>
         /\ fnOut.kpis = EmptyObject
         /\ fnOut.lifetime.lifetimeCycles = 0
         /\ fnOut.lifetime.rul = 0
         /\ fnOut.lifetime.rulDays = 0
         /\ fnOut.lifetime.remainingCycles = 0
         /\ fnOut.lifetime.mtbf = 0
         /\ fnOut.lifetime.mttr = 0

\* The read of a wide CSV settles whose header lacks a required column and
\* which has data rows: processCSVData runs on it.
LacksRequiredColumn ==
  /\ wPending # << >> /\ wPending' = << >>
  /\ wPending[1].file.readable
  /\ Len(wPending[1].file.rows) > 0
  /\ MissingColumns(wPending[1].file.columns) # << >>

\* C12: a wide input whose header lacks any of device_id, cycle_started_at,
\* cycle_duration_ms fails with an error message naming exactly the missing
\* columns, and no dataset is installed, in every wide-shape dashboard.
C12_MissingColumnsRejected ==
  [][LacksRequiredColumn =>
       /\ errorMessage' =
            <<"Missing required columns">> \o MissingColumns(wPending[1].file.columns)
       /\ originalData' = << >>
       /\ data' = << >>]_vars

\* A parse of the long-shape Dashboard ends with no accepted row.
ZeroRowsResult ==
  /\ tsParse # << >> /\ tsParse' = << >>
  /\ tsParse[1].allRows = << >>

\* C13: an upload from which zero data rows result fails: loading is false,
\* the error message is non-empty and no dataset is installed.
C13_ZeroRowsFail ==
  [][ZeroRowsResult =>
       /\ ~tsLoading'
       /\ tsErrorMessage' # << >>
       /\ tsRawData' \in {<< >>, tsRawData}
       /\ tsProcessedData' \in {<< >>, tsProcessedData}]_vars

\* A record whose timestamp is valid: a valid date, hour and day of week.
ValidRecord(r) == ~IsNaN(r.date) /\ ~IsNaN(r.hour) /\ ~IsNaN(r.dayOfWeek)

AllValid(records) == \A i \in 1..Len(records) : ValidRecord(records[i])

\* The rows of a file whose cycle_started_at parses as a date.
ValidRowCount(file) ==
  Cardinality({i \in 1..Len(file.rows) : ~IsNaN(file.rows[i].cycle_started_at)})

\* processCSVData runs on a CSV with every required column that has both
\* a row with an invalid cycle_started_at and a row with a valid one.
MixedUpload ==
  /\ wPending # << >> /\ wPending' = << >>
  /\ wPending[1].file.readable
  /\ MissingColumns(wPending[1].file.columns) = << >>
  /\ ValidRowCount(wPending[1].file) \in 1..(Len(wPending[1].file.rows) - 1)

\* C14: every record of the installed wide dataset, in originalData and in
\* data, has a valid date, hour and day of week; rows with an invalid timestamp
\* are dropped and the upload succeeds with the remaining valid rows.
C14_InstalledRowsValid ==
  /\ [](AllValid(originalData) /\ AllValid(data))
  /\ [][MixedUpload =>
          /\ ~loading'
          /\ errorMessage' = << >>
          /\ Len(originalData') = ValidRowCount(wPending[1].file)]_vars

\* A dataset is installed that has fewer records than the file had rows.
C14_Witness ==
  /\ ~loading
  /\ Len(originalData) >= 1
  /\ wParsedRows > Len(originalData)

\* pivotLongToWide has been applied to the drawn rows.
Pivoted == fnPc = "done" /\ fnIn.kind = "rows"

\* The measure_value of the last input row of a device, Time and measure.
LastValue(deviceId, time, name) ==
  LET same == SelectSeq(fnIn.data, LAMBDA r : /\ r.deviceId = deviceId
                                              /\ r.Time = time
                                              /\ r.measure_name = name)
  IN same[Len(same)].measure_value

\* C15: pivotLongToWide merges all rows sharing a (deviceId, Time) pair into
\* exactly one point of that device, no point is without a row, and the
\* point's field for a measure_name holds the measure_value of the last row
\* of the input with that name.
C15_OnePointLastWins ==
  Pivoted =>
    /\ \A i \in 1..Len(fnIn.data) :
         LET row == fnIn.data[i]
             of == {k \in 1..Len(fnOut) : fnOut[k].deviceId = row.deviceId}
         IN /\ Cardinality(of) = 1
            /\ \A k \in of :
                 LET ts == fnOut[k].timeSeries
                     at == {n \in 1..Len(ts) : ts[n].time = row.Time}
                 IN /\ Cardinality(at) = 1
                    /\ \A n \in at :
                         /\ row.measure_name \in DOMAIN ts[n]
                         /\ ts[n][row.measure_name] =
                              LastValue(row.deviceId, row.Time, row.measure_name)
    /\ \A k \in 1..Len(fnOut) : \A n \in 1..Len(fnOut[k].timeSeries) :
         \E i \in 1..Len(fnIn.data) :
           /\ fnIn.data[i].deviceId = fnOut[k].deviceId
           /\ fnIn.data[i].Time = fnOut[k].timeSeries[n].time

\* Two rows of the input share device, Time and measure and differ in value,
\* and rows of another Time are pivoted with them.
C15_Witness ==
  /\ Pivoted
  /\ \E i, j \in 1..Len(fnIn.data) :
       /\ i < j
       /\ fnIn.data[i].deviceId = fnIn.data[j].deviceId
       /\ fnIn.data[i].Time = fnIn.data[j].Time
       /\ fnIn.data[i].measure_name = fnIn.data[j].measure_name
       /\ fnIn.data[i].measure_value # fnIn.data[j].measure_value
  /\ \E k \in 1..Len(fnOut) : Len(fnOut[k].timeSeries) >= 2

\* C16: for every device pivotLongToWide produces and every order of the
\* input rows, timeSeries, cycleSummaries and realTimeData are each in
\* non-decreasing timestamp order: no point comes before a point with a
\* smaller timestamp.
C16_SortedByTimestamp ==
  Pivoted =>
    \A k \in 1..Len(fnOut) :
      /\ IsSortedByTimestamp(fnOut[k].timeSeries)
      /\ IsSortedByTimestamp(fnOut[k].cycleSummaries)
      /\ IsSortedByTimestamp(fnOut[k].realTimeData)

\* How many points of a list satisfy a test.
CountOf(points, Test(_)) == Cardinality({n \in 1..Len(points) : Test(points[n])})

\* C17: cycleSummaries is exactly the order-preserving sub-sequence of the
\* device's timeSeries points that carry cycle.durationS, and realTimeData
\* exactly the sub-sequence of the points that carry any of voltage.U1, DI1_KM
\* or temperature.ambient; the two memberships are independent.
C17_NonExclusiveClassification ==
  Pivoted =>
    \A k \in 1..Len(fnOut) :
      LET ts == fnOut[k].timeSeries
          cs == fnOut[k].cycleSummaries
          rt == fnOut[k].realTimeData
      IN /\ IsSubSeq(cs, ts)
         /\ \A n \in 1..Len(cs) : "cycle.durationS" \in DOMAIN cs[n]
         /\ Len(cs) = CountOf(ts, LAMBDA t : "cycle.durationS" \in DOMAIN t)
         /\ IsSubSeq(rt, ts)
         /\ \A n \in 1..Len(rt) :
              {"voltage.U1", "DI1_KM", "temperature.ambient"} \cap DOMAIN rt[n] # {}
         /\ Len(rt) =
              CountOf(ts, LAMBDA t : {"voltage.U1", "DI1_KM", "temperature.ambient"}
                                       \cap DOMAIN t # {})

\* One device has a point in both lists and a point in neither.
C17_Witness ==
  /\ Pivoted
  /\ \E k \in 1..Len(fnOut) :
       LET d == fnOut[k]
       IN /\ \E n \in 1..Len(d.timeSeries) :
               /\ \E m \in 1..Len(d.cycleSummaries) :
                    d.cycleSummaries[m] = d.timeSeries[n]
               /\ \E m \in 1..Len(d.realTimeData) :
                    d.realTimeData[m] = d.timeSeries[n]
          /\ \E n \in 1..Len(d.timeSeries) :
               /\ \A m \in 1..Len(d.cycleSummaries) :
                    d.cycleSummaries[m] # d.timeSeries[n]
               /\ \A m \in 1..Len(d.realTimeData) :
                    d.realTimeData[m] # d.timeSeries[n]

\* What the date-range and time-range filters keep of each list of the
\* devices of the upload named in a set.
KeptOf(deviceIds, list) ==
  {LongApplyFilters(tsProcessedData[k][list], tsDateRange, tsTimeRange) :
     k \in {n \in 1..Len(tsProcessedData) : tsProcessedData[n].deviceId \in deviceIds}}

\* C18: with the device selection 'all' the working set handed to the metrics
\* contains the records of every device of the upload that pass the other
\* filters; with a device selected it is exactly that device's records that
\* pass them.
C18_DeviceFilter ==
  /\ tsSelectedDevice = "all" =>
       /\ \A kept \in KeptOf(DevicesOf(tsProcessedData), "cycleSummaries") :
            IsSubSeq(kept, FilteredCycles)
       /\ \A kept \in KeptOf(DevicesOf(tsProcessedData), "realTimeData") :
            IsSubSeq(kept, FilteredRealTime)
  /\ tsSelectedDevice # "all" =>
       /\ \A kept \in KeptOf({tsSelectedDevice}, "cycleSummaries") :
            FilteredCycles = kept
       /\ \A kept \in KeptOf({tsSelectedDevice}, "realTimeData") :
            FilteredRealTime = kept
       /\ KeptOf({tsSelectedDevice}, "cycleSummaries") = {} =>
            FilteredCycles = << >> /\ FilteredRealTime = << >>

\* calculateCycleMetrics has been applied to a non-empty list of cycles.
CycleMetricsDone ==
  fnPc = "done" /\ fnIn.kind = "cycleMetrics" /\ Len(fnIn.data) > 0

\* The durations of the drawn cycles.
DurationsIn == [i \in 1..Len(fnIn.data) |-> fnIn.data[i]["cycle.durationS"]]

\* m is the element at index floor(n/2) of the list in ascending numeric
\* order: at most floor(n/2) elements are smaller and more than floor(n/2)
\* are not larger.
IsUpperMedian(m, durations) ==
  LET half == Len(durations) \div 2
  IN /\ Cardinality({i \in 1..Len(durations) : durations[i] < m}) <= half
     /\ Cardinality({i \in 1..Len(durations) : durations[i] <= m}) > half

\* C19: for every non-empty list of n cycle durations the drift baseline of
\* calculateCycleMetrics is the element at index floor(n/2) of the durations
\* in ascending numeric order.
C19_BaselineIsNumericMedian ==
  CycleMetricsDone => IsUpperMedian(fnOut.baseline, DurationsIn)

\* The claimed test |(duration - baseline) / baseline * 100| > 10 as the
\* arithmetic of the program evaluates it: with a baseline of 0 the quotient
\* is Infinity for a non-zero duration and NaN (greater than nothing) for 0.
QuotientExceedsTen(duration, baseline) ==
  IF baseline = 0 THEN duration # 0
  ELSE Abs(duration - baseline) * 100 > 10 * Abs(baseline)

\* trends has one entry per cycle, in order.
OneEntryPerCycle ==
  /\ Len(fnOut.trends) = Len(fnIn.data)
  /\ \A i \in 1..Len(fnOut.trends) :
       /\ fnOut.trends[i].cycle = i
       /\ fnOut.trends[i].duration = DurationsIn[i]

\* The trend entries that are drifting.
Drifting == {i \in 1..Len(fnOut.trends) : fnOut.trends[i].isDrifting}

\* The scenario: durations [10, 10, 10, 10, 20].
ScenarioDurations == <<10, 10, 10, 10, 20>>

\* For the scenario the baseline is 10, the fifth drift +100 % and exactly
\* one entry is drifting.
ScenarioOutcome ==
  DurationsIn = ScenarioDurations =>
    /\ fnOut.baseline = 10
    /\ fnOut.trends[5].drift = 100 * 100
    /\ Drifting = {5}

WidePathDone == fnPc = "done" /\ fnIn.kind = "widePath"

\* The rows of the file within the default window: a valid cycle_started_at
\* no more than seven days before the newest valid one.
RowsInDefaultWindow ==
  LET rows == fnIn.file.rows
      valid == {i \in 1..Len(rows) : ~IsNaN(rows[i].cycle_started_at)}
  IN {i \in valid :
        \A j \in valid :
          rows[i].cycle_started_at >=
            rows[j].cycle_started_at - 7 * 24 * TicksPerHour}

\* The CSV of the scenario: header device_id,cycle_started_at,
\* cycle_duration_ms and two rows of M1, one and two hours long, one hour
\* apart.
ScenarioFile ==
  [readable |-> TRUE,
   columns |-> {"device_id", "cycle_started_at", "cycle_duration_ms"},
   rows |-> <<[device_id |-> "M1", location |-> "L1", cycle_started_at |-> 0,
               cycle_duration_ms |-> 1 * TicksPerHour],
              [device_id |-> "M1", location |-> "L1",
               cycle_started_at |-> 1 * TicksPerHour,
               cycle_duration_ms |-> 2 * TicksPerHour]>>]

AnomaliesDone == fnPc = "done" /\ fnIn.kind = "anomalies" /\ Len(fnIn.data) > 0

\* The conditions of the score that hold for a cycle summary.
ConditionsOf(c) ==
  {name \in {"inrush.multiple", "voltageSag.sagDepthPct",
             "workCurrent.unbalancePct", "workCurrent.rippleMaxPct",
             "cycle.overall"} :
     /\ name \in DOMAIN c
     /\ CASE name = "inrush.multiple" -> c[name] > 8
          [] name = "voltageSag.sagDepthPct" -> c[name] > 60
          [] name = "workCurrent.unbalancePct" -> c[name] > 15
          [] name = "workCurrent.rippleMaxPct" -> c[name] > 70
          [] OTHER -> c[name] = 1}

\* The cycles whose number of conditions is in a set.
CyclesScoring(scores) ==
  {i \in 1..Len(fnIn.data) : Cardinality(ConditionsOf(fnIn.data[i])) \in scores}

\* C22: calculateAnomalies gives each cycle a score equal to the number of
\* true conditions among the four threshold tests and cycle.overall = 1, sets
\* isAnomaly iff the score is at least 2, and counts critical for a score of
\* 4 or more, high for 3 and medium for 2, which add up to the anomaly count.
C22_AnomalyScore ==
  AnomaliesDone =>
    /\ Len(fnOut.anomalies) = Len(fnIn.data)
    /\ \A i \in 1..Len(fnIn.data) :
         /\ fnOut.anomalies[i].score = Cardinality(ConditionsOf(fnIn.data[i]))
         /\ fnOut.anomalies[i].isAnomaly <=> fnOut.anomalies[i].score >= 2
    /\ fnOut.count = Cardinality(CyclesScoring(2..5))
    /\ fnOut.severity.critical = Cardinality(CyclesScoring(4..5))
    /\ fnOut.severity.high = Cardinality(CyclesScoring({3}))
    /\ fnOut.severity.medium = Cardinality(CyclesScoring({2}))
    /\ fnOut.severity.critical + fnOut.severity.high + fnOut.severity.medium
         = fnOut.count

\* A critical anomaly and a cycle that is none although its cycle.overall
\* is 2 and one threshold is exceeded.
C22_Witness ==
  /\ AnomaliesDone
  /\ fnOut.severity.critical = 1
  /\ \E i \in 1..Len(fnIn.data) :
       /\ ~fnOut.anomalies[i].isAnomaly
       /\ fnOut.anomalies[i].score = 1
       /\ "cycle.overall" \in DOMAIN fnIn.data[i]
       /\ fnIn.data[i]["cycle.overall"] = 2

\* ------------------------------------------------ remaining useful life

\* calculateLifetimeMetrics has returned for a non-empty cycle list.
LifetimeDone ==
  /\ fnPc = "done"
  /\ fnIn.kind = "cycles"
  /\ Len(fnIn.data) > 0

\* Every cycle of the list carries the same timestamp: a span of zero days.
OneTimestamp ==
  \A i \in 1..Len(fnIn.data) : fnIn.data[i].timestamp = fnIn.data[1].timestamp

\* rulDays and remainingCycles are numbers, neither NaN nor below zero.
FiniteLifetime ==
  /\ ~IsNaN(fnOut.lifetime.rulDays) /\ fnOut.lifetime.rulDays >= 0
  /\ ~IsNaN(fnOut.lifetime.remainingCycles)
  /\ fnOut.lifetime.remainingCycles >= 0

\* C23: for every non-empty cycle list, one of a single timestamp included,
\* rulDays is a finite defined number and remainingCycles is not negative.
C23_RulDaysDefined == LifetimeDone => FiniteLifetime

\* The same for the thresholds that are numbers, where additionally a list
\* of one timestamp has rulDays = remainingCycles / lifetimeCycles, rounded.
C23_RulDaysDefinedForNumericThreshold ==
  (LifetimeDone /\ ~IsNaN(fnIn.thresholds.lifetimeCycleThreshold)) =>
    /\ FiniteLifetime
    /\ OneTimestamp =>
         fnOut.lifetime.rulDays =
           ToFixed0(fnOut.lifetime.remainingCycles, Len(fnIn.data))

\* Two cycles of one timestamp under the default threshold.
C23_Witness ==
  /\ LifetimeDone
  /\ OneTimestamp
  /\ Len(fnIn.data) = 2
  /\ fnIn.data[1].timestamp = 0
  /\ fnIn.thresholds.lifetimeCycleThreshold = lifetimeCycleThreshold
  /\ fnOut.lifetime.rulDays = 24999

\* ------------------------------------------------------ recommendations

ReportDone == fnPc = "done" /\ fnIn.kind = "report"

\* The six rules: whether the rule's own condition holds on the inputs.
RuleHolds(rule) ==
  CASE rule = 1 -> fnIn.anomalyMetrics.count > 5
    [] rule = 2 -> "eStopCount" \in DOMAIN fnIn.fleetKPIs
                   /\ fnIn.fleetKPIs.eStopCount > 3
    [] rule = 3 -> "avgLoadFactor" \in DOMAIN fnIn.fleetKPIs
                   /\ fnIn.fleetKPIs.avgLoadFactor < 50
    [] rule = 4 -> "critical" \in DOMAIN fnIn.voltageSagAnalysis.severity
                   /\ fnIn.voltageSagAnalysis.severity.critical > 0
    [] rule = 5 -> fnIn.lifetimeMetrics.rul # NaN /\ fnIn.lifetimeMetrics.rul < 200
    [] rule = 6 -> fnIn.lifetimeMetrics.mtbf < 1000

\* The first part of each rule's recommendation.
RuleText(rule) ==
  CASE rule = 1 -> "High anomaly count detected - recommend maintenance inspection"
    [] rule = 2 -> "Multiple E-Stop events - investigate safety concerns"
    [] rule = 3 -> "Low load factor - check for underloading or inefficient operation"
    [] rule = 4 -> "Critical voltage sags detected - check power supply quality"
    [] rule = 5 -> "Machine approaching end-of-life - plan replacement within "
    [] rule = 6 -> "Low MTBF indicates poor reliability - investigate recurring failure modes"

\* How often a rule's recommendation is in the report.
TimesRecommended(rule) ==
  Cardinality({i \in 1..Len(fnOut.recommendations) :
                 fnOut.recommendations[i][1] = RuleText(rule)})

\* C24: the recommendations of generateReport hold the recommendation of
\* each of the six rules, once, iff that rule's own condition holds on the
\* inputs, whatever the other rules did, and nothing else.
C24_RecommendationsAccumulate ==
  ReportDone =>
    /\ \A rule \in 1..6 :
         TimesRecommended(rule) = IF RuleHolds(rule) THEN 1 ELSE 0
    /\ Len(fnOut.recommendations) = Cardinality({rule \in 1..6 : RuleHolds(rule)})

\* All six rules fire on one input.
C24_Witness ==
  /\ ReportDone
  /\ \A rule \in 1..6 : RuleHolds(rule)
  /\ Len(fnOut.recommendations) = 6

\* --------------------------------------------------------------- purity

\* C25: two calls of a Metrics Engine function with equal inputs return
\* equal outputs; here of the long-shape calculateElectricalMetrics,
\* calculateEnergyMetrics and calculateAnomalyMetrics.
C25_EqualInputsEqualOutputs == fnPc = "twice" => fnOut[1] = fnOut[2]

\* The same for the empty cycle list alone, where nothing is drawn.
C25_EmptyInputEqualOutputs ==
  (fnPc = "twice" /\ Len(fnIn.data) = 0) => fnOut[1] = fnOut[2]

\* ---------------------------------------------------- upload termination

\* The step that ends the loading state of the long-shape dashboard leaves
\* an error message or the dataset of the file being parsed.
TsLoadingEndsDefined ==
  (tsLoading /\ ~tsLoading') =>
    \/ tsErrorMessage' # << >>
    \/ /\ tsParse # << >>
       /\ tsRawData' = AcceptedRows(tsParse[1].file)
       /\ tsProcessedData' = PivotLongToWide(tsRawData')

WideUploadEndsDefined ==
  [][(wPending # << >> /\ wPending' = << >>) =>
       /\ ~loading'
       /\ \/ errorMessage' # << >>
          \/ originalData' = NormalizeRows(PapaParse(wPending[1].file))]_vars

ParseDone == fnPc = "done" /\ fnIn.kind = "parse"

\* The values of the onProgress calls among the first n calls, in order.
ProgressValues(n) ==
  LET reports == SelectSeq(SubSeq(fnOut.calls, 1, n),
                           LAMBDA c : c.call = "onProgress")
  IN [i \in 1..Len(reports) |-> reports[i].value]

NonDecreasing(values) ==
  \A i, j \in 1..Len(values) : i <= j => values[i] <= values[j]

\* C27: the progress values of one parseCSV run never decrease; those
\* reported while rows are consumed are at most 90 and one is reported for
\* each full batch of accepted rows; the run ends with progress 95, then the
\* one onComplete call with every accepted row in input order, then 100.
C27_ProgressMonotonic ==
  ParseDone =>
    LET calls == fnOut.calls
        n == Len(calls)
        accepted == SelectSeq(fnIn.data, StepAccepts)
    IN /\ n >= 3
       /\ NonDecreasing(ProgressValues(n))
       /\ \A i \in 1..(n - 3) :
            calls[i].call = "onProgress" /\ calls[i].value <= 90
       /\ n - 3 = Len(accepted) \div fnIn.config.batchSize
       /\ calls[n - 2] = [call |-> "onProgress", value |-> 95]
       /\ calls[n - 1] = [call |-> "onComplete", rows |-> accepted]
       /\ calls[n] = [call |-> "onProgress", value |-> 100]

\* A run over six rows, five of them accepted, that reports 90 twice while
\* consuming rows.
C27_Witness ==
  /\ ParseDone
  /\ Len(fnIn.data) = 6
  /\ Len(SelectSeq(fnIn.data, StepAccepts)) = 5
  /\ ProgressValues(Len(fnOut.calls)) = <<20, 40, 60, 80, 90, 95, 100>>

\* ------------------------------------------- data against originalData

\* The length of the selected time range in hours; none for 'all'.
RangeHours ==
  CASE selectedTimeRange = "24h" -> 24
    [] selectedTimeRange = "7d" -> 7 * 24
    [] selectedTimeRange = "30d" -> 30 * 24
    [] OTHER -> 0

\* The newest cycle start of the installed dataset.
NewestStart ==
  CHOOSE t \in {originalData[i].cycle_started_at : i \in 1..Len(originalData)} :
    \A i \in 1..Len(originalData) : originalData[i].cycle_started_at <= t

\* A record passes the three selections in force.
PassesSelections(d) ==
  /\ selectedDevice = "all" \/ d.device_id = selectedDevice
  /\ selectedLocation = "all" \/ d.location = selectedLocation
  /\ \/ selectedTimeRange = "all"
     \/ d.cycle_started_at >= NewestStart - RangeHours * TicksPerHour

\* short is long with some elements left out, the rest in order.
IsSubList(short, long) ==
  \E at \in [1..Len(short) -> 1..Len(long)] :
    /\ \A i, j \in 1..Len(short) : i < j => at[i] < at[j]
    /\ \A i \in 1..Len(short) : short[i] = long[at[i]]

\* C28: in every state of the wide-shape dashboards, the effect having run,
\* data holds exactly the records of originalData that pass the current
\* selectedDevice, selectedLocation and selectedTimeRange, in their order:
\* an order-preserving sub-list of originalData, empty when that is empty.
C28_DataIsFilteredOriginal ==
  /\ data = SelectSeq(originalData, PassesSelections)
  /\ IsSubList(data, originalData)
  /\ originalData = << >> => data = << >>

\* Two records installed of which the device, location and 24 h selections
\* together keep the first only.
C28_Witness ==
  /\ Len(originalData) = 2
  /\ selectedDevice = "M1"
  /\ selectedLocation = "L1"
  /\ selectedTimeRange = "24h"
  /\ data = <<originalData[1]>>
  /\ ~loading

\* ---------------------------------------------- stale device selection

\* C29: while a dataset is installed in a wide-shape dashboard, the device
\* selection in force is 'all' or a device of that dataset: no selection
\* made under an earlier upload stays on as a filter that no record of the
\* installed dataset matches.
C29_SelectionInDataset ==
  Len(originalData) > 0 => selectedDevice \in {"all"} \cup DeviceOptions

\* The same for the long-shape dashboard as far as the data shown goes:
\* currentDevice is a dataset of the installed upload whenever there is one.
C29_LongCurrentDeviceInstalled ==
  Len(tsProcessedData) > 0 =>
    /\ CurrentDevice(tsProcessedData, tsSelectedDevice) # << >>
    /\ CurrentDevice(tsProcessedData, tsSelectedDevice)[1].deviceId
         \in DevicesOf(tsProcessedData)

\* ------------------------------------------------------ chamber fullness

ChamberDone == fnPc = "done" /\ fnIn.kind = "chamber"

\* C30: calculateChamberFullness returns a percent within 0..100 and the
\* level that goes with that percent: Low iff percent < 33, Medium iff
\* 33 <= percent < 67, High iff percent >= 67.
C30_LevelMatchesPercent ==
  ChamberDone =>
    /\ fnOut.percent \in 0..100
    /\ fnOut.level = "Low" <=> fnOut.percent < 33
    /\ fnOut.level = "Medium" <=> (33 <= fnOut.percent /\ fnOut.percent < 67)
    /\ fnOut.level = "High" <=> fnOut.percent >= 67

\* The part that holds: the percent is within 0..100, and the level goes
\* with the percent except where the percent is 67.
C30_LevelMatchesPercentBut67 ==
  ChamberDone =>
    /\ fnOut.percent \in 0..100
    /\ fnOut.level \in {"Low", "Medium", "High"}
    /\ fnOut.percent # 67 =>
         /\ fnOut.level = "Low" <=> fnOut.percent < 33
         /\ fnOut.level = "High" <=> fnOut.percent > 67

====
